---- MODULE Spec2Model ----
(***************************************************************************)
(* Community Resources Chat: the query-understanding / ranking engine and  *)
(* the per-session pagination state of the two entry points of the         *)
(* repository:                                                             *)
(*   "opt"   = app_optimized.py  with search.py                            *)
(*   "llama" = chat_llama.py     (its own detect_* / rank_items)           *)
(* Text is modelled as strings, character by character; the regular        *)
(* expressions of the source are written out as scanning operators.        *)
(***************************************************************************)
EXTENDS Integers, Sequences, FiniteSets, TLC

(***************************************************************************)
(* State.  A session of one of the two apps (st.session_state and what the *)
(* last run of the script displayed), and one call of a rank function.     *)
(***************************************************************************)
VARIABLES
  app,               \* which entry point runs: "opt" or "llama"
  datasets_cache,    \* st.session_state["datasets_cache"]: the parsed records by category
  session_category,  \* st.session_state["category"]
  last_query_by_cat, \* st.session_state["last_query_by_cat"]; "" for a missing key
  shown_ids_by_cat,  \* st.session_state["shown_ids_by_cat"]; {} for a missing key
  show_more,         \* st.session_state["show_more"] (app_optimized)
  view_mode_by_cat,  \* st.session_state["view_mode_<category>"] (chat_llama)
  zip_by_cat,        \* st.session_state["zip_<category>"], the sidebar ZIP selectbox
  day_by_cat,        \* st.session_state["day_<category>"], the sidebar day selectbox
  reply,             \* what the last run of respond_to_query computed and displayed
  chain,             \* history: the last new query of the category and its pages
  calls,             \* number of chat inputs handled so far
  misspelling_suggestion,           \* st.session_state[...]: the corrected query; "" for None
  waiting_for_misspelling_response, \* st.session_state[...]
  last_event,        \* history: the last thing the user did, and the flags it found
  rank_input,        \* the arguments of one call of rank_items
  rank_engine,       \* "none" before the call, then "search" or "llama"
  rank_output,       \* the list the call returned
  json_file,         \* data/<category>.json: the snapshot load_category_data saved
  load_cache,        \* the st.cache_data memo of load_category_data, by category
  load_call,         \* the last call of a loading function, with what it consulted
  persisted,         \* history: the last snapshot a successful load saved, by category
  loads,             \* number of loading calls so far
  parse_input,       \* the text given to parse_blocks, as the list of its lines
  parse_engine,      \* "none" before the call, then "loader" or "llama"
  parse_output,      \* the records the call returned
  fn_input,          \* the argument of one call of a text function
  fn_name,           \* "none" before the call, then the name of the function called
  fn_output,         \* what the call returned
  pinned,            \* st.session_state["pinned"], the list of the pinned items
  pin_call           \* the last two calls of toggle_pin and the lists they found

session_vars ==
  <<app, datasets_cache, session_category, last_query_by_cat, shown_ids_by_cat, show_more, view_mode_by_cat,
    zip_by_cat, day_by_cat, reply, chain, calls, misspelling_suggestion,
    waiting_for_misspelling_response, last_event>>

rank_vars == <<rank_input, rank_engine, rank_output>>

load_vars == <<json_file, load_cache, load_call, persisted, loads>>

parse_vars == <<parse_input, parse_engine, parse_output>>

fn_vars == <<fn_input, fn_name, fn_output>>

pin_vars == <<pinned, pin_call>>

more_vars == <<fn_vars, pin_vars>>

aux_vars == <<load_vars, parse_vars, more_vars>>

vars == <<session_vars, rank_vars, aux_vars>>

(***************************************************************************)
(* Characters and strings (Python str / re primitives)                     *)
(***************************************************************************)
LowerLetters == "abcdefghijklmnopqrstuvwxyz"
UpperLetters == "ABCDEFGHIJKLMNOPQRSTUVWXYZ"
DigitChars == {"0", "1", "2", "3", "4", "5", "6", "7", "8", "9"}
SpaceChars == {" ", "\t", "\n"}

Ch(s, i) == SubSeq(s, i, i)

CharSet(s) == {Ch(s, i) : i \in 1..Len(s)}

AlphaChars == CharSet(LowerLetters) \cup CharSet(UpperLetters)

\* \w of the re module, restricted to ASCII
WordChars == AlphaChars \cup DigitChars \cup {"_"}

Min(S) == CHOOSE x \in S : \A y \in S : x <= y

Max(S) == CHOOSE x \in S : \A y \in S : x >= y

UpperChars == CharSet(UpperLetters)

RECURSIVE LowerPairs(_)
LowerPairs(k) ==
  IF k = 0 THEN <<>>
  ELSE (Ch(UpperLetters, k) :> Ch(LowerLetters, k)) @@ LowerPairs(k - 1)

\* upper-case letter -> lower-case letter
LowerOf == LowerPairs(Len(UpperLetters))

\* str.lower() of one character
LowerCh(c) == IF c \in UpperChars THEN LowerOf[c] ELSE c

\* str.lower(), the text halved until single characters remain
RECURSIVE Lower(_)
Lower(s) ==
  IF Len(s) = 0 THEN ""
  ELSE IF Len(s) = 1 THEN LowerCh(s)
  ELSE Lower(SubSeq(s, 1, Len(s) \div 2)) \o Lower(SubSeq(s, Len(s) \div 2 + 1, Len(s)))

\* str.capitalize() for an all-lowercase word
Capitalize(s) ==
  IF s = "" THEN ""
  ELSE Ch(UpperLetters, CHOOSE k \in 1..26 : Ch(LowerLetters, k) = Ch(s, 1)) \o SubSeq(s, 2, Len(s))

\* t occurs in s at position i
MatchAt(s, i, t) == i >= 1 /\ i + Len(t) - 1 <= Len(s) /\ SubSeq(s, i, i + Len(t) - 1) = t

\* Python "t in s"
Contains(s, t) == \E i \in 1..(Len(s) - Len(t) + 1) : MatchAt(s, i, t)

IsWordAt(s, i) == i >= 1 /\ i <= Len(s) /\ Ch(s, i) \in WordChars

\* \b between the characters i-1 and i (i in 1..Len(s)+1)
Boundary(s, i) == IsWordAt(s, i - 1) # IsWordAt(s, i)

\* str.strip()
Strip(s) ==
  LET keep == {i \in 1..Len(s) : Ch(s, i) \notin SpaceChars}
  IN IF keep = {} THEN "" ELSE SubSeq(s, Min(keep), Max(keep))

\* re.sub(r'\s+', ' ', s): every run of whitespace becomes one blank
RECURSIVE CollapseFrom(_, _)
CollapseFrom(s, i) ==
  IF i > Len(s) THEN ""
  ELSE IF Ch(s, i) \in SpaceChars
       THEN (IF i > 1 /\ Ch(s, i - 1) \in SpaceChars THEN "" ELSE " ") \o CollapseFrom(s, i + 1)
       ELSE Ch(s, i) \o CollapseFrom(s, i + 1)

CollapseSpaces(s) == CollapseFrom(s, 1)

\* the positions where a maximal run of characters that satisfy In starts, and where
\* one ends
RunStarts(s, In(_)) ==
  {i \in 1..Len(s) : In(Ch(s, i)) /\ (i = 1 \/ ~In(Ch(s, i - 1)))}

RunEnds(s, In(_)) ==
  {i \in 1..Len(s) : In(Ch(s, i)) /\ (i = Len(s) \/ ~In(Ch(s, i + 1)))}

\* the runs that start at the positions of starts, left to right
RECURSIVE RunsAt(_, _, _)
RunsAt(s, starts, ends) ==
  IF starts = {} THEN <<>>
  ELSE <<SubSeq(s, Min(starts), Min(ends))>>
       \o RunsAt(s, starts \ {Min(starts)}, ends \ {Min(ends)})

\* the maximal runs of characters that satisfy In, left to right
Runs(s, In(_)) == RunsAt(s, RunStarts(s, In), RunEnds(s, In))

\* str.split(): the whitespace-separated words
Split(s) == Runs(s, LAMBDA c : c \notin SpaceChars)

Range(f) == {f[i] : i \in DOMAIN f}

\* re.findall(r"[a-zA-Z]+", s) as a set
AlphaWords(s) == Range(Runs(s, LAMBDA c : c \in AlphaChars))

\* re.sub(rf'\b{word}\b', '', s, flags=re.I): delete every whole-word occurrence
RECURSIVE RemoveWordFrom(_, _, _)
RemoveWordFrom(s, w, i) ==
  IF i > Len(s) THEN ""
  ELSE IF Len(w) > 0 /\ MatchAt(Lower(s), i, w) /\ Boundary(s, i) /\ Boundary(s, i + Len(w))
       THEN RemoveWordFrom(s, w, i + Len(w))
       ELSE Ch(s, i) \o RemoveWordFrom(s, w, i + 1)

RemoveWord(s, w) == RemoveWordFrom(s, Lower(w), 1)

\* positions where the pattern \b(60\d{3})\b matches
ZipPositions(s) ==
  {i \in 1..(Len(s) - 4) :
     /\ Boundary(s, i)
     /\ MatchAt(s, i, "60")
     /\ \A k \in 2..4 : Ch(s, i + k) \in DigitChars
     /\ Boundary(s, i + 5)}

\* re.search(r'\b(60\d{3})\b', s): group 1 of the first match, "" when none
FirstZip(s) ==
  IF ZipPositions(s) = {} THEN "" ELSE SubSeq(s, Min(ZipPositions(s)), Min(ZipPositions(s)) + 4)

\* re.sub(r'\b(60\d{3})\b', '', s)
RECURSIVE RemoveZipsFrom(_, _)
RemoveZipsFrom(s, i) ==
  IF i > Len(s) THEN ""
  ELSE IF i \in ZipPositions(s) THEN RemoveZipsFrom(s, i + 5)
       ELSE Ch(s, i) \o RemoveZipsFrom(s, i + 1)

\* the alternatives of alts (in order) that match as \b(alt)\b at position i of s
AltsAt(s, i, alts) ==
  IF ~Boundary(s, i) THEN {}
  ELSE {k \in 1..Len(alts) : MatchAt(s, i, alts[k]) /\ Boundary(s, i + Len(alts[k]))}

\* re.search(r'\b(a1|a2|...)\b', s, re.I): the first match, lowercased; "" when none
FirstWordOf(s, alts) ==
  LET ls == Lower(s)
      pos == {i \in 1..Len(ls) : AltsAt(ls, i, alts) # {}}
  IN IF pos = {} THEN "" ELSE alts[Min(AltsAt(ls, Min(pos), alts))]

(***************************************************************************)
(* Days, hours text and opening hours                                      *)
(***************************************************************************)
\* DAY_PATTERNS of data_loader.py, in dictionary order: <<day, alternatives>>
DAY_PATTERNS ==
  << <<"monday", <<"mon", "monday">> >>,
     <<"tuesday", <<"tue", "tues", "tuesday">> >>,
     <<"wednesday", <<"wed", "wednesday">> >>,
     <<"thursday", <<"thu", "thur", "thursday">> >>,
     <<"friday", <<"fri", "friday">> >>,
     <<"saturday", <<"sat", "saturday">> >>,
     <<"sunday", <<"sun", "sunday">> >> >>

DayNames == {DAY_PATTERNS[k][1] : k \in 1..7}

DigitVal(c) == CHOOSE v \in 0..9 : Ch("0123456789", v + 1) = c

\* one match of (\d{1,2}):?(\d{2})? at a digit position i: <<hour, minute, next position>>
TimeAt(s, i) ==
  LET two == i + 1 <= Len(s) /\ Ch(s, i + 1) \in DigitChars
      h == IF two THEN 10 * DigitVal(Ch(s, i)) + DigitVal(Ch(s, i + 1)) ELSE DigitVal(Ch(s, i))
      j == IF two THEN i + 2 ELSE i + 1
      k == IF j <= Len(s) /\ Ch(s, j) = ":" THEN j + 1 ELSE j
      mm == k + 1 <= Len(s) /\ Ch(s, k) \in DigitChars /\ Ch(s, k + 1) \in DigitChars
  IN IF mm THEN <<h, 10 * DigitVal(Ch(s, k)) + DigitVal(Ch(s, k + 1)), k + 2>>
     ELSE <<h, 0, k>>

\* time_pattern.findall(s): the (hour, minute) of every match, left to right
RECURSIVE TimesFrom(_, _)
TimesFrom(s, i) ==
  IF i > Len(s) THEN <<>>
  ELSE IF Ch(s, i) \notin DigitChars THEN TimesFrom(s, i + 1)
  ELSE LET t == TimeAt(s, i) IN << <<t[1], t[2]>> >> \o TimesFrom(s, t[3])

\* consecutive pairs of times; an odd last time is dropped
PairUp(times) == [k \in 1..(Len(times) \div 2) |-> <<times[2 * k - 1], times[2 * k]>>]

LookAhead == 50

\* the times found in the LookAhead characters after the first match of a day pattern;
\* <<FALSE, <<>>>> when the day is not named
DayTimes(hl, alts) ==
  LET pos == {i \in 1..Len(hl) : AltsAt(hl, i, alts) # {}}
      p == Min(pos)
      e == p + Len(alts[Min(AltsAt(hl, p, alts))])
  IN IF pos = {} THEN <<FALSE, <<>> >>
     ELSE <<TRUE, TimesFrom(SubSeq(hl, e, Min({Len(hl), e + LookAhead - 1})), 1)>>

\* data_loader.parse_hours: day -> list of ((h, m), (h, m)); a day is a key only when
\* at least one time token follows its name
parse_hours(hours_text) ==
  LET hl == Lower(hours_text)
      found == {k \in 1..7 : DayTimes(hl, DAY_PATTERNS[k][2])[1]
                             /\ Len(DayTimes(hl, DAY_PATTERNS[k][2])[2]) > 0}
      keyOf(d) == CHOOSE k \in found : DAY_PATTERNS[k][1] = d
  IN [d \in {DAY_PATTERNS[k][1] : k \in found} |->
        PairUp(DayTimes(hl, DAY_PATTERNS[keyOf(d)][2])[2])]

\* the abbreviation table of chat_llama.parse_day_ranges, in dictionary order
DayAbbrevs == <<"mon", "tue", "tues", "wed", "thu", "thurs", "fri", "sat", "sun">>
DayOfAbbrev ==
  <<"Monday", "Tuesday", "Tuesday", "Wednesday", "Thursday", "Thursday", "Friday",
    "Saturday", "Sunday">>
FullDays == <<"monday", "tuesday", "wednesday", "thursday", "friday", "saturday", "sunday">>

\* the dashes of the class [-–]; the model's texts use the ASCII one
DashChars == {"-"}

SkipSpaces(s, i) ==
  LET stops == {j \in i..Len(s) : Ch(s, j) \notin SpaceChars}
  IN IF stops = {} THEN Len(s) + 1 ELSE Min(stops)

\* a match of \b(abbr)\s*[-–]\s*(abbr)\b at i: <<start index, end index, next position>>,
\* <<0, 0, 0>> when there is none
DayRangeAt(s, i) ==
  LET EndOf(best) ==
        SkipSpaces(s, SkipSpaces(s, i + Len(DayAbbrevs[best[1]])) + 1)
          + Len(DayAbbrevs[best[2]])
      Match(best) == <<best[1], best[2], EndOf(best)>>
      First(cands) ==
        IF cands = {} THEN <<0, 0, 0>>
        ELSE Match(CHOOSE c \in cands :
                     \A o \in cands : c[1] < o[1] \/ (c[1] = o[1] /\ c[2] <= o[2]))
      SecondAt(b, q) == MatchAt(s, q, DayAbbrevs[b]) /\ Boundary(s, q + Len(DayAbbrevs[b]))
      DashAt(b, d) == d <= Len(s) /\ Ch(s, d) \in DashChars /\ SecondAt(b, SkipSpaces(s, d + 1))
  IN First({<<a, b>> \in (1..9) \X (1..9) :
              /\ Boundary(s, i) /\ MatchAt(s, i, DayAbbrevs[a])
              /\ DashAt(b, SkipSpaces(s, i + Len(DayAbbrevs[a])))})

\* re.findall(range_pattern, s): non-overlapping matches, left to right
RECURSIVE DayRangesFrom(_, _)
DayRangesFrom(s, i) ==
  LET Rest(r) == IF r[1] = 0 THEN DayRangesFrom(s, i + 1)
                 ELSE << <<r[1], r[2]>> >> \o DayRangesFrom(s, r[3])
  IN IF i > Len(s) THEN <<>> ELSE Rest(DayRangeAt(s, i))

\* the slice of the abbreviation list between two indexes, wrapping when start > end
ExpandRange(si, ei) ==
  IF si <= ei THEN {DayOfAbbrev[k] : k \in si..ei}
  ELSE {DayOfAbbrev[k] : k \in si..9} \cup {DayOfAbbrev[k] : k \in 1..ei}

\* chat_llama.parse_day_ranges on a string, as the set of the days of its list
parse_day_ranges_text(hours_input) ==
  LET Ranged(rs) == UNION {ExpandRange(rs[k][1], rs[k][2]) : k \in 1..Len(rs)}
      Single(hl) == {DayOfAbbrev[a] : a \in {a \in 1..9 :
                       \E i \in 1..Len(hl) : AltsAt(hl, i, <<DayAbbrevs[a]>>) # {}}}
      Full(hl) == {Capitalize(FullDays[k]) : k \in {k \in 1..7 : Contains(hl, FullDays[k])}}
      Days(hl) == Ranged(DayRangesFrom(hl, 1)) \cup Single(hl) \cup Full(hl)
  IN Days(Lower(hours_input))

\* chat_llama.parse_day_ranges on a structured hours mapping
parse_day_ranges_dict(hours) ==
  {Capitalize(d) : d \in {d \in DOMAIN hours : Len(hours[d]) > 0}}

\* hours = item.get("hours_text") or item.get("hours") or ""; parse_day_ranges(hours)
AvailableDays(c) ==
  IF c.hours_text # "" THEN parse_day_ranges_text(c.hours_text)
  ELSE parse_day_ranges_dict(c.hours)

\* datetime.time(h, m) raises ValueError outside these ranges
ValidTime(t) == t[1] \in 0..23 /\ t[2] \in 0..59

Secs(t) == 3600 * t[1] + 60 * t[2]

\* search.is_open_now at the instant now = [day, secs]; the first range that does not
\* convert to a time raises, and the except clause answers False
is_open_now(record, now) ==
  /\ now.day \in DOMAIN record.hours
  /\ LET rs == record.hours[now.day]
     IN \E k \in 1..Len(rs) :
          /\ \A j \in 1..k : ValidTime(rs[j][1]) /\ ValidTime(rs[j][2])
          /\ Secs(rs[k][1]) <= now.secs /\ now.secs <= Secs(rs[k][2])

(***************************************************************************)
(* Sorting (list.sort is stable, also with reverse=True)                   *)
(***************************************************************************)
\* e placed into the sorted list, behind every element it does not sort before
InsertLast(sorted, e, Before(_, _)) ==
  LET stay == {j \in 1..Len(sorted) : ~Before(e, sorted[j])}
      cut == IF stay = {} THEN 0 ELSE Max(stay)
  IN SubSeq(sorted, 1, cut) \o <<e>> \o SubSeq(sorted, cut + 1, Len(sorted))

\* seq sorted so that a precedes b whenever Before(a, b); elements that neither precede
\* the other keep their order in seq
StableSort(seq, Before(_, _)) ==
  LET RECURSIVE SortPrefix(_)
      SortPrefix(n) ==
        IF n = 0 THEN <<>> ELSE InsertLast(SortPrefix(n - 1), seq[n], Before)
  IN SortPrefix(Len(seq))

\* the subsequence of the elements that satisfy Keep
RECURSIVE FilterFrom(_, _, _)
FilterFrom(seq, keep, i) ==
  IF i > Len(seq) THEN <<>>
  ELSE (IF i \in keep THEN <<seq[i]>> ELSE <<>>) \o FilterFrom(seq, keep, i + 1)

\* seq[:n]
Take(seq, n) == SubSeq(seq, 1, Min({n, Len(seq)}))

\* code points of the characters the model's names use, in ASCII order
CharOrder == " -0123456789ABCDEFGHIJKLMNOPQRSTUVWXYZ_abcdefghijklmnopqrstuvwxyz"

Ord(c) == CHOOSE k \in 1..Len(CharOrder) : Ch(CharOrder, k) = c

\* Python str < str
StrLess(a, b) ==
  \E k \in 1..(Len(b)) :
     /\ k <= Len(a) + 1
     /\ SubSeq(a, 1, k - 1) = SubSeq(b, 1, k - 1)
     /\ (k = Len(a) + 1 \/ Ord(Ch(a, k)) < Ord(Ch(b, k)))

(***************************************************************************)
(* search.py: intent extraction                                            *)
(***************************************************************************)
SEARCH_SYNONYMS ==
  << <<"health", <<"health", "healthcare", "medical", "clinic", "hospital", "doctor",
       "physician", "health center">>>>,
     <<"dental", <<"dental", "dentist", "oral", "teeth", "tooth", "dental care",
       "exams", "cleanings", "x-rays", "extractions">>>>,
     <<"pediatric", <<"pediatric", "pediatrician", "child", "children", "kids", "baby",
       "infant", "adolescent", "youth">>>>,
     <<"mental", <<"mental", "therapy", "therapist", "counseling", "counselor",
       "psychology", "psychiatric", "psychiatry", "behavioral health", "behavioral">>>>,
     <<"primary", <<"primary", "family", "general", "internal", "medicine", "doctor",
       "physician", "primary care", "family medicine">>>>,
     <<"womens", <<"women", "womens", "obstetrics", "gynecology", "obgyn", "ob/gyn",
       "prenatal", "midwifery">>>>,
     <<"urgent", <<"urgent", "emergency", "walk-in", "same-day", "walk in", "24/7",
       "24 hours">>>>,
     <<"hiv", <<"hiv", "sti", "std", "sexually transmitted">>>>,
     <<"nutrition", <<"nutrition", "nutritional", "dietitian", "diet">>>>,
     <<"mobile", <<"mobile", "screening", "screenings", "glucose", "blood pressure",
       "immunization", "vaccination", "vaccine">>>>,
     <<"specialty", <<"surgery", "podiatry", "surgical", "specialty">>>>,
     <<"education", <<"education", "school", "learning", "class", "course",
       "training">>>>,
     <<"esl", <<"esl", "english", "english language", "language", "language training",
       "english classes", "language learning", "english tutoring">>>>,
     <<"citizenship", <<"citizenship", "citizenship preparation", "citizenship classes",
       "citizenship exam", "civics">>>>,
     <<"ged", <<"ged", "high school", "diploma", "education", "adult education",
       "adult basic education">>>>,
     <<"literacy", <<"literacy", "literate", "reading", "adult literacy",
       "basic literacy", "family literacy">>>>,
     <<"youth", <<"youth", "after-school", "after school", "tutoring", "homework help",
       "mentoring", "youth programs">>>>,
     <<"computer", <<"computer", "digital literacy", "computer skills",
       "computer classes", "digital", "technology">>>>,
     <<"workforce", <<"workforce", "job training", "employment", "career", "vocational",
       "job readiness", "job placement", "workforce readiness">>>>,
     <<"financial", <<"financial literacy", "financial", "money management",
       "budgeting">>>>,
     <<"legal", <<"legal", "lawyer", "attorney", "immigration", "asylum", "daca",
       "daca", "family reunification", "court", "advocacy", "legal services">>>>,
     <<"resettlement", <<"resettlement", "refugee resettlement", "case management",
       "welcoming center">>>>,
     <<"shelter", <<"shelter", "housing", "homeless", "emergency housing",
       "emergency shelter", "domestic violence", "temporary housing">>>>,
     <<"employment", <<"employment", "job", "job placement", "job readiness",
       "job training", "job coaching", "career", "vocational">>>>,
     <<"benefits", <<"benefits", "snap", "food stamps", "medicaid", "cash assistance",
       "public benefits", "enrollment">>>>,
     <<"food", <<"food", "food pantry", "pantry", "food bank", "food distribution",
       "free meals", "meals">>>>,
     <<"crisis", <<"crisis", "hotline", "24-hour", "emergency", "abuse", "neglect">>>>,
     <<"free", <<"free", "no cost", "no-cost", "complimentary", "pro bono">>>>,
     <<"low cost", <<"low cost", "low-cost", "affordable", "sliding scale">>>>,
     <<"medicaid", <<"medicaid", "medicare", "insurance", "coverage">>>> >>

SERVICE_WORDS ==
  <<"dental", "pediatric", "mental", "primary", "urgent", "esl", "ged", "legal", "shelter",
    "womens", "hiv", "nutrition", "mobile", "specialty", "citizenship", "literacy", "youth",
    "computer", "workforce", "financial", "resettlement", "employment", "benefits", "food",
    "crisis">>

DAY_WORDS ==
  <<"monday", "tuesday", "wednesday", "thursday", "friday", "saturday", "sunday",
    "mon", "tue", "wed", "thu", "fri", "sat", "sun">>

TIME_WORDS == <<"now", "today", "open", "available">>

\* day_map.get(day, day) of extract_key_terms
NormalDay(d) ==
  IF \E k \in 8..14 : DAY_WORDS[k] = d THEN DAY_WORDS[(CHOOSE k \in 8..14 : DAY_WORDS[k] = d) - 7]
  ELSE d

\* search.extract_key_terms; "" stands for a key that is absent
extract_key_terms(query) ==
  [zip |-> FirstZip(query),
   service |-> FirstWordOf(query, SERVICE_WORDS),
   day |-> NormalDay(FirstWordOf(query, DAY_WORDS)),
   time |-> FirstWordOf(query, TIME_WORDS)]

search_detect_zip_from_query(query) == FirstZip(query)

search_detect_service_from_query(query, category) == extract_key_terms(query).service

search_detect_day_from_query(query) == extract_key_terms(query).day

search_clean_query_of_zip(query) == Strip(RemoveZipsFrom(query, 1))

search_clean_query_of_service_and_day(query, detected_service, detected_day) ==
  LET c1 == IF detected_service # "" THEN RemoveWord(query, detected_service) ELSE query
      c2 == IF detected_day # "" THEN RemoveWord(c1, detected_day) ELSE c1
  IN Strip(c2)

\* str.replace(a, b): the occurrences of a, left to right, not overlapping
RECURSIVE ReplaceFrom(_, _, _, _)
ReplaceFrom(s, a, b, i) ==
  IF i > Len(s) THEN ""
  ELSE IF MatchAt(s, i, a) THEN b \o ReplaceFrom(s, a, b, i + Len(a))
       ELSE Ch(s, i) \o ReplaceFrom(s, a, b, i + 1)

\* search.expand_query_terms: the query and its synonym variants
RECURSIVE ExpandFrom(_, _, _)
ExpandFrom(ql, k, j) ==
  IF k > Len(SEARCH_SYNONYMS) THEN <<>>
  ELSE IF ~Contains(ql, SEARCH_SYNONYMS[k][1]) \/ j > Len(SEARCH_SYNONYMS[k][2])
       THEN ExpandFrom(ql, k + 1, 1)
       ELSE (IF Contains(ql, SEARCH_SYNONYMS[k][2][j]) THEN <<>>
             ELSE <<ReplaceFrom(ql, SEARCH_SYNONYMS[k][1], SEARCH_SYNONYMS[k][2][j], 1)>>)
            \o ExpandFrom(ql, k, j + 1)

expand_query_terms(query) == <<Lower(query)>> \o ExpandFrom(Lower(query), 1, 1)

(***************************************************************************)
(* search.py: scoring and ranking.  Scores are in units of 10^-5 (1.0 is    *)
(* 100000); ratios are rounded down to the unit.  The three rapidfuzz       *)
(* ratios are computed by a library: their weighted sum                     *)
(* 0.3*token_sort + 0.25*token_set + 0.2*partial is an input, rf, per       *)
(* record, between 0 and 75000.                                             *)
(***************************************************************************)
Bigrams(t) == {SubSeq(t, i, i + 1) : i \in 1..(Len(t) - 1)}

\* search.fuzzy_score
fuzzy_score(record, query, rf) ==
  IF record.search_blob = "" THEN 0
  ELSE LET ql == Lower(query)
           wq == Range(Split(ql))
           wb == Range(Split(record.search_blob))
           word_overlap == (15000 * Cardinality(wq \cap wb)) \div Max({Cardinality(wq), 1})
           qb == Bigrams(ql)
           bigram_overlap ==
             IF qb = {} THEN 0
             ELSE (10000 * Cardinality(qb \cap Bigrams(record.search_blob))) \div Cardinality(qb)
       IN Min({rf + word_overlap + bigram_overlap, 100000})

GENERAL_CONCEPTS ==
  << <<"health", {"clinic", "center", "care", "medical", "health"}>>,
     <<"help", {"assistance", "support", "services", "help", "aid"}>>,
     <<"care", {"treatment", "care", "services", "support"}>>,
     <<"class", {"education", "training", "course", "class", "learning"}>>,
     <<"food", {"pantry", "meals", "food", "nutrition", "hunger"}>>,
     <<"housing", {"shelter", "housing", "home", "residence"}>>,
     <<"legal", {"law", "attorney", "counsel", "immigration", "legal"}>> >>

\* the Healthcare rules of search.must_have_patterns: <<trigger substrings, pattern>>;
\* women\'?s health is written out as its two spellings
SEARCH_MUST_HAVE ==
  << <<{"dental", "dentist", "teeth", "tooth", "oral"},
       <<"dental", "dentist", "oral", "teeth", "tooth", "dental care">> >>,
     <<{"pediatric", "children", "kids", "child", "adolescent", "youth"},
       <<"pediatric", "pediatrician", "child", "children", "kids", "baby", "infant",
         "adolescent">> >>,
     <<{"mental", "therapy", "therapist", "counseling", "psychiatric", "behavioral"},
       <<"mental", "therapy", "therapist", "counseling", "counselor", "psychology",
         "psychiatric", "behavioral">> >>,
     <<{"women", "womens", "obgyn", "prenatal", "obstetrics", "gynecology"},
       <<"women's health", "womens health", "obstetrics", "gynecology", "ob/gyn",
         "prenatal", "midwifery">> >>,
     <<{"hiv", "sti", "std"}, <<"hiv", "sti", "std", "sexually transmitted">> >>,
     <<{"primary", "family medicine", "internal medicine"},
       <<"primary care", "family medicine", "internal medicine", "primary", "family",
         "general">> >> >>

\* search.must_have_patterns(query, "Healthcare"): the patterns the query asks for
search_must_have_patterns(query) ==
  {SEARCH_MUST_HAVE[k][2] : k \in {k \in 1..Len(SEARCH_MUST_HAVE) :
      \E term \in SEARCH_MUST_HAVE[k][1] : Contains(Lower(query), term)}}

\* pattern_match of search.rank_items: some pattern is found in the search blob
search_pattern_match(item, must_have) ==
  LET FoundIn(b) == \E p \in must_have : \E i \in 1..Len(b) : AltsAt(b, i, p) # {}
  IN FoundIn(Lower(item.search_blob))

\* the hard filters of search.rank_items
search_passes_filters(item, zip_filter, lang_filter, service_filter, day_filter) ==
  /\ zip_filter = "All" \/ item.zip_code = zip_filter
  /\ lang_filter = "All" \/ lang_filter \in Range(item.languages)
  /\ service_filter = "All" \/ service_filter \in Range(item.services)
  /\ day_filter = "All" \/ day_filter \in DOMAIN item.hours

\* the bonus "for synonym_list in BASE_SYNONYMS.values()" of search.rank_items: 0.1 for
\* every list with a synonym that is in the query and in the services text (the break
\* leaves the inner loop only)
search_synonym_bonus(services_text, query_lower) ==
  IF services_text = "" THEN 0
  ELSE 10000 * Cardinality({g \in 1..Len(SEARCH_SYNONYMS) :
                 \E j \in 1..Len(SEARCH_SYNONYMS[g][2]) :
                    /\ Contains(query_lower, SEARCH_SYNONYMS[g][2][j])
                    /\ Contains(services_text, SEARCH_SYNONYMS[g][2][j])})

\* the score search.rank_items gives one record that passed the filters
search_score(item, rf, now, query, key_terms, expanded_queries) ==
  LET query_lower == Lower(query)
      services_text == Lower(item.services_text)
      max_fuzzy == Max({0} \cup {fuzzy_score(item, expanded_queries[k], rf) :
                                    k \in 1..Len(expanded_queries)})
      query_words == Split(query_lower)
      service_words == Range(Split(services_text))
      n_services == Cardinality({k \in 1..Len(item.services) :
                                   Contains(query_lower, item.services[k])})
      n_subcats == Cardinality({k \in 1..Len(item.subcategories) :
                                  Contains(query_lower, Lower(item.subcategories[k]))})
      n_partial == Cardinality({k \in 1..Len(query_words) :
                     /\ Len(query_words[k]) >= 3
                     /\ \E sw \in service_words :
                          Contains(sw, query_words[k]) \/ Contains(query_words[k], sw)})
      n_concepts == Cardinality({g \in 1..Len(GENERAL_CONCEPTS) :
                      /\ Contains(query_lower, GENERAL_CONCEPTS[g][1])
                      /\ \E t \in GENERAL_CONCEPTS[g][2] : Contains(item.search_blob, t)})
  IN (7 * max_fuzzy) \div 10
     + (IF Contains(item.search_blob, query_lower) THEN 30000 ELSE 0)
     + (IF Contains(Lower(item.name), query_lower) THEN 20000 ELSE 0)
     + 15000 * n_services
     + 20000 * n_subcats
     + search_synonym_bonus(services_text, query_lower)
     + 5000 * n_partial
     + 8000 * n_concepts
     + (IF key_terms.time \in {"now", "today", "open"} /\ is_open_now(item, now)
        THEN 40000 ELSE 0)
     + (IF key_terms.zip # "" /\ item.zip_code = key_terms.zip THEN 30000 ELSE 0)
     + (IF key_terms.day # "" /\ key_terms.day \in DOMAIN item.hours THEN 20000 ELSE 0)

TIMING_KEYWORDS == {"now", "today", "open", "available", "immediate", "urgent"}

\* wants_timing of search.rank_items
wants_timing(query, key_terms) ==
  (\E kw \in TIMING_KEYWORDS : Contains(Lower(query), kw)) \/ key_terms.time # ""

\* a variant that compares the scores only, whatever the query asks for
search_sorts_before_by_score(a, b, timing, items, now) == a[1] > b[1]

\* a = <<score, index>> sorts before b: scored_items.sort(key=..., reverse=True) with the
\* key (is_open, score) when the query asks for timing and the key score otherwise
search_sorts_before(a, b, timing, items, now) ==
  IF timing
  THEN LET oa == is_open_now(items[a[2]], now)
           ob == is_open_now(items[b[2]], now)
       IN (oa /\ ~ob) \/ (oa = ob /\ a[1] > b[1])
  ELSE a[1] > b[1]

\* "score > 0.05"
SCORE_THRESHOLD == 5000

\* a return statement that drops no pair
search_keep_every_pair(scored_items) == scored_items

\* return [(score, item) for score, item in scored_items if score > 0.05]
search_above_threshold(scored_items) ==
  FilterFrom(scored_items, {p \in 1..Len(scored_items) : scored_items[p][1] > SCORE_THRESHOLD}, 1)

RECURSIVE search_scored_from(_, _, _, _, _, _, _, _, _, _, _)
search_scored_from(items, fuzz, now, query, kt, ex, zf, lf, sf, df, i) ==
  IF i > Len(items) THEN <<>>
  ELSE (IF search_passes_filters(items[i], zf, lf, sf, df)
        THEN << <<search_score(items[i], fuzz[i], now, query, kt, ex), i>> >>
        ELSE <<>>)
       \o search_scored_from(items, fuzz, now, query, kt, ex, zf, lf, sf, df, i + 1)

\* search.rank_items: the list of <<score, index of the record in items>>
search_rank_items(items, fuzz, now, query, category, zip_filter, lang_filter, service_filter, day_filter) ==
  IF Len(items) = 0 \/ Strip(query) = "" THEN <<>>
  ELSE LET key_terms == extract_key_terms(query)
           expanded_queries == expand_query_terms(query)
           scored_items == search_scored_from(items, fuzz, now, query, key_terms,
                             expanded_queries, zip_filter, lang_filter, service_filter,
                             day_filter, 1)
           timing == wants_timing(query, key_terms)
           sorted == StableSort(scored_items,
                        LAMBDA a, b : search_sorts_before(a, b, timing, items, now))
       IN search_above_threshold(sorted)

(***************************************************************************)
(* Records (data_loader.parse_blocks) and the datasets of the model        *)
(***************************************************************************)
RECURSIVE JoinFrom(_, _, _)
JoinFrom(parts, sep, i) ==
  IF i > Len(parts) THEN ""
  ELSE parts[i] \o (IF i < Len(parts) THEN sep ELSE "") \o JoinFrom(parts, sep, i + 1)

\* sep.join(parts)
Join(parts, sep) == JoinFrom(parts, sep, 1)

\* data_loader.normalize_zip
\* a normalize_zip that takes the first run of five digits after a word boundary
normalize_zip_any_five_digits(address_text) ==
  LET Five(s) ==
        LET at == {i \in 1..(Len(s) - 4) :
                     Boundary(s, i) /\ \A k \in 0..4 : Ch(s, i + k) \in DigitChars}
        IN IF at = {} THEN "" ELSE SubSeq(s, Min(at), Min(at) + 4)
  IN Five(address_text)

normalize_zip(address_text) == FirstZip(address_text)

\* the record parse_blocks builds from the lines of one block; the service tags,
\* subcategories and languages are given as normalize_services, get_subcategories and
\* normalize_languages compute them from the text
MkRecord(id, name, address, services_text, services, subcategories, languages, hours_text) ==
  LET search_fields == <<name, address, services_text, Join(services, " "),
                         Join(subcategories, " "), Join(languages, " "), hours_text>>
      present == FilterFrom(search_fields, {k \in 1..7 : search_fields[k] # ""}, 1)
  IN [id |-> id, name |-> name, address |-> address, zip_code |-> normalize_zip(address),
      services |-> services, services_text |-> services_text,
      subcategories |-> subcategories, languages |-> languages,
      hours |-> parse_hours(hours_text), hours_text |-> hours_text,
      search_blob |-> Lower(Join(present, " "))]

RecWest ==
  MkRecord("1", "west dental", "1 a 60623", "dental", <<"dental">>, <<"Dental">>, <<>>,
           "mon-fri 9-17")
RecLawn ==
  MkRecord("2", "lawn kids care", "2 b 60623", "pediatric", <<"pediatric">>,
           <<"Pediatrics">>, <<"spanish">>, "mon 9-12, sat 10-14")
RecEast ==
  MkRecord("3", "east dental", "3 c 60608", "dental", <<"dental">>, <<"Dental">>, <<>>, "wed")
RecVan ==
  MkRecord("4", "van dental", "", "dental", <<"dental">>, <<"Dental">>, <<>>, "")
\* a block whose ordinal repeats the ordinal of an earlier block
RecLake ==
  MkRecord("3", "lake dental", "5 e 60623", "dental", <<"dental">>, <<"Dental">>, <<>>,
           "tue-thu 9-17")
RecEsl ==
  MkRecord("1", "esl class", "9 z 60608", "esl classes", <<"esl">>, <<"ESL Classes">>,
           <<>>, "sat 9-12")

(***************************************************************************)
(* parse_blocks on a text, given as the list of its lines                  *)
(***************************************************************************)
IsBlank(line) == Strip(line) = ""

\* str.rstrip()
RStrip(s) ==
  LET keep == {i \in 1..Len(s) : Ch(s, i) \notin SpaceChars}
  IN IF keep = {} THEN "" ELSE SubSeq(s, 1, Max(keep))

\* text.strip(): the blank lines at both ends go, and the blanks that end the last line
StripText(lines) ==
  LET keep == {j \in 1..Len(lines) : ~IsBlank(lines[j])}
      Cut(a, b) == [j \in 1..(b - a + 1) |->
                      IF j = b - a + 1 THEN RStrip(lines[b]) ELSE lines[a + j - 1]]
  IN IF keep = {} THEN <<>> ELSE Cut(Min(keep), Max(keep))

\* the number of digits a line starts with
LeadingDigits(line) ==
  Min({i \in 1..(Len(line) + 1) : i > Len(line) \/ Ch(line, i) \notin DigitChars}) - 1

\* \d+\.\s matches at the start of the line; follows: a line break ends the line
NumberedAt(line, follows) ==
  LET Dot(n) == /\ n >= 1
                /\ n + 1 <= Len(line)
                /\ Ch(line, n + 1) = "."
                /\ IF n + 2 <= Len(line) THEN Ch(line, n + 2) \in SpaceChars ELSE follows
  IN Dot(LeadingDigits(line))

\* the lines start..(next start - 1) for every start, in order
RECURSIVE GroupsAt(_, _)
GroupsAt(lines, starts) ==
  IF starts = {} THEN <<>>
  ELSE LET Group(a, rest) ==
             <<SubSeq(lines, a, IF rest = {} THEN Len(lines) ELSE Min(rest) - 1)>>
             \o GroupsAt(lines, rest)
       IN Group(Min(starts), starts \ {Min(starts)})

\* the blocks of data_loader.parse_blocks: re.split before every numbered line, and
\* re.split at the blank lines when that gave fewer than two blocks
loader_blocks(text) ==
  LET Blocks(t) ==
        LET numbered == {1} \cup {j \in 2..Len(t) : NumberedAt(t[j], j < Len(t))}
            spaced == {j \in 1..Len(t) : ~IsBlank(t[j]) /\ (j = 1 \/ IsBlank(t[j - 1]))}
        IN IF t = <<>> THEN <<>>
           ELSE IF Cardinality(numbered) >= 2 THEN GroupsAt(t, numbered)
           ELSE GroupsAt(t, spaced)
  IN Blocks(StripText(text))

\* [line.strip() for line in block.split('\n') if line.strip()]
RECURSIVE BlockLines(_, _)
BlockLines(block, j) ==
  IF j > Len(block) THEN <<>>
  ELSE (IF IsBlank(block[j]) THEN <<>> ELSE <<Strip(block[j])>>) \o BlockLines(block, j + 1)

\* re.sub(r'^(p1|p2):\s*', '', line, flags=re.I).strip()
DropLabel(line, labels) ==
  LET hit == {p \in labels : MatchAt(Lower(line), 1, p \o ":")}
  IN IF hit = {} THEN Strip(line)
     ELSE Strip(SubSeq(line, Len(CHOOSE p \in hit : TRUE) + 2, Len(line)))

\* the globe emoji (U+1F310) of the keyword lists, one character of a line; the texts
\* of the model write it "@" and hold no other emoji
GLOBE == "@"

\* any(keyword in line_lower for keyword in [...])
HasKeyword(line, keywords) == \E kw \in keywords : Contains(Lower(line), kw)

\* the patterns of LANGUAGE_PATTERNS, without the alternatives in other scripts
LANGUAGE_PATTERNS ==
  <<<<"spanish", {"spanish"}>>, <<"arabic", {"arabic", "arab"}>>, <<"french", {"french"}>>,
    <<"polish", {"polish", "polski"}>>, <<"mandarin", {"mandarin", "chinese"}>>,
    <<"urdu", {"urdu"}>>, <<"hindi", {"hindi"}>>>>

\* normalize_languages(languages_text): the languages whose pattern has a match between
\* word boundaries; list(set(languages)) is kept as the set
normalize_languages(languages_text) ==
  LET languages_lower == Lower(languages_text)
  IN {LANGUAGE_PATTERNS[k][1] : k \in {k \in 1..Len(LANGUAGE_PATTERNS) :
        \E w \in LANGUAGE_PATTERNS[k][2] : \E i \in 1..Len(languages_lower) :
           /\ MatchAt(languages_lower, i, w)
           /\ ~IsWordAt(languages_lower, i - 1)
           /\ ~IsWordAt(languages_lower, i + Len(w))}}

\* the characters that end a match of WEBSITE_PATTERN, https?://[^\s<>"']+
UrlStops == SpaceChars \cup {"<", ">", "\"", "'"}

\* normalize_website(website_text): the first match of WEBSITE_PATTERN, or the text
\* stripped when there is none
normalize_website(website_text) ==
  LET starts == {i \in 1..Len(website_text) : \E scheme \in {"http://", "https://"} :
                   /\ MatchAt(website_text, i, scheme)
                   /\ i + Len(scheme) <= Len(website_text)
                   /\ Ch(website_text, i + Len(scheme)) \notin UrlStops}
      Match(i) ==
        SubSeq(website_text, i,
               CHOOSE e \in i..Len(website_text) :
                 /\ \A k \in (i + 7)..e : Ch(website_text, k) \notin UrlStops
                 /\ e = Len(website_text) \/ Ch(website_text, e + 1) \in UrlStops)
  IN IF starts = {} THEN Strip(website_text)
     ELSE Match(CHOOSE i \in starts : \A k \in starts : i <= k)

\* one pass of the loop "for line in lines[1:]" of data_loader.parse_blocks; the service
\* tags, subcategories, badges and phone are not read by any property and are left out
\* of the record
loader_field(record, line) ==
  IF HasKeyword(line, {"services:"})
  THEN [record EXCEPT !.services_text = DropLabel(line, {"services", "service"})]
  ELSE IF HasKeyword(line, {"phone:"}) THEN record
  ELSE IF HasKeyword(line, {"hours:"})
  THEN [record EXCEPT !.hours = parse_hours(DropLabel(line, {"hours", "hour"})),
                      !.hours_text = DropLabel(line, {"hours", "hour"})]
  ELSE IF HasKeyword(line, {"languages:", GLOBE, "language:"})
  THEN [record EXCEPT !.languages =
                        normalize_languages(DropLabel(line, {"languages", GLOBE, "language"}))]
  ELSE IF HasKeyword(line, {"website:", GLOBE, "web:"})
  THEN [record EXCEPT !.website =
                        normalize_website(DropLabel(line, {"website", GLOBE, "web"}))]
  ELSE IF HasKeyword(line, {"address:", "location:"})
  THEN [record EXCEPT !.address = DropLabel(line, {"address", "location"}),
                      !.zip_code = normalize_zip(DropLabel(line, {"address", "location"}))]
  ELSE IF /\ record.address = ""
          /\ Len(line) > 10
          /\ (Contains(Lower(line), "chicago") \/ Contains(Lower(line), "il")
              \/ ZipPositions(line) # {})
  THEN [record EXCEPT !.address = line, !.zip_code = normalize_zip(line)]
  ELSE record

RECURSIVE loader_fields(_, _, _)
loader_fields(record, lines, j) ==
  IF j > Len(lines) THEN record
  ELSE loader_fields(loader_field(record, lines[j]), lines, j + 1)

\* str(n) for the counts of the model
Str(n) == Ch("0123456789", n + 1)

\* the record of one block of at least two lines; n_items = len(items)
loader_record(lines, n_items) ==
  LET first_line == lines[1]
      Heading(n) ==
        IF n >= 1 /\ n + 1 <= Len(first_line) /\ Ch(first_line, n + 1) = "."
        THEN [id |-> IF n + 2 <= Len(first_line) /\ Ch(first_line, n + 2) \in SpaceChars
                     THEN SubSeq(first_line, 1, n) ELSE "item_" \o Str(n_items + 1),
              name |-> Strip(SubSeq(first_line, n + 2, Len(first_line)))]
        ELSE [id |-> "item_" \o Str(n_items + 1), name |-> Strip(first_line)]
      Filled(h) ==
        loader_fields([id |-> h.id, name |-> h.name, address |-> "", zip_code |-> "",
                       website |-> "", services_text |-> "", languages |-> {},
                       hours |-> <<>>, hours_text |-> ""], lines, 2)
  IN Filled(Heading(LeadingDigits(first_line)))

\* the loop over the blocks; a block of fewer than two lines is skipped
RECURSIVE loader_records(_, _, _)
loader_records(blocks, k, items) ==
  IF k > Len(blocks) THEN items
  ELSE LET Next1(lines) ==
             IF Len(lines) < 2 THEN items
             ELSE Append(items, loader_record(lines, Len(items)))
       IN loader_records(blocks, k + 1, Next1(BlockLines(blocks[k], 1)))

\* data_loader.parse_blocks(text, category)
loader_parse_blocks(text) == loader_records(loader_blocks(text), 1, <<>>)

\* the blocks of chat_llama.parse_blocks: re.split before every numbered line
llama_blocks(text) ==
  LET Blocks(t) ==
        IF t = <<>> THEN <<>>
        ELSE GroupsAt(t, {1} \cup {j \in 2..Len(t) : NumberedAt(t[j], j < Len(t))})
  IN Blocks(StripText(text))

\* the record of one block, blk = the lines of blk.strip(); n_out = len(out). No line
\* of the model holds an emoji, so address is "" and the ZIP is looked up in the block
llama_record(blk, n_out) ==
  LET first_line == Strip(blk[1])
      later == {j \in 2..Len(blk) : ~IsBlank(blk[j])}
      Matched(n) ==
        /\ n >= 1
        /\ n + 1 <= Len(first_line)
        /\ Ch(first_line, n + 1) = "."
        /\ IF n + 2 <= Len(first_line) THEN Ch(first_line, n + 2) \in SpaceChars
           ELSE later # {}
      After(n) == Strip(SubSeq(first_line, n + 2, Len(first_line)))
      Unnumbered(n) ==
        IF n >= 1 /\ n + 1 <= Len(first_line) /\ Ch(first_line, n + 1) = "."
        THEN After(n) ELSE first_line
      Record(n) ==
        IF Matched(n)
        THEN [id |-> SubSeq(first_line, 1, n),
              name |-> IF After(n) # "" THEN After(n) ELSE Strip(blk[Min(later)]),
              zip |-> FirstZip(Join(blk, "\n"))]
        ELSE [id |-> Str(n_out + 1), name |-> Unnumbered(n),
              zip |-> FirstZip(Join(blk, "\n"))]
  IN Record(LeadingDigits(first_line))

RECURSIVE llama_records(_, _, _)
llama_records(blocks, k, out) ==
  IF k > Len(blocks) THEN out
  ELSE LET Next1(blk) ==
             IF blk = <<>> THEN out ELSE Append(out, llama_record(blk, Len(out)))
       IN llama_records(blocks, k + 1, Next1(StripText(blocks[k])))

\* chat_llama.parse_blocks(resource_text)
llama_parse_blocks(text) == llama_records(llama_blocks(text), 1, <<>>)

(***************************************************************************)
(* Loading a category: the sources, the saved snapshot and the memo        *)
(***************************************************************************)
\* DATA_SOURCES of data_loader.py, and DATA_SOURCES of chat_llama.py for Healthcare
DATA_SOURCES ==
  ("Healthcare" :>
     <<"https://raw.githubusercontent.com/mowaffak-alraiyes/refugee-resources/main/resources/healthcare.txt",
       "resources/healthcare.txt">>)
  @@ ("Education" :>
     <<"https://raw.githubusercontent.com/mowaffak-alraiyes/refugee-resources/main/resources/education.txt",
       "resources/education.txt">>)

LLAMA_DATA_SOURCES ==
  <<"https://raw.githubusercontent.com/mowaffak-alraiyes/refugee-resources/main/resources/healthcare.txt",
    "/mnt/data/Healthcare Resources.txt">>

\* source.startswith("http")
IsHttp(source) == MatchAt(source, 1, "http")

\* what a source answers when it is asked: "error" an exception (no network, unreadable
\* file), "missing" a status other than 200 or a path that does not exist, "empty" a
\* text of white space, "ok" its text
SourceOutcomes == {"error", "missing", "empty", "ok"}

\* the text of the repository file and of the local copy
RemoteText == <<"1. west dental", "address: 1 a 60623", "", "3. east dental", "address: 3 c 60608">>
LocalText == <<"1. west dental", "address: 1 a 60623">>

EducationText == <<"1. esl class", "address: 9 z 60608">>

SourceText(source) ==
  IF Contains(source, "education") THEN EducationText
  ELSE IF IsHttp(source) THEN RemoteText ELSE LocalText

\* the loop "for source in sources" of fetch_text_from_sources from the i-th source
\* on: the sources it consulted and the text it returned (got = FALSE: None, or the
\* RuntimeError of chat_llama)
RECURSIVE fetch_from(_, _, _, _)
fetch_from(sources, outcomes, i, consulted) ==
  IF i > Len(sources) THEN [consulted |-> consulted, got |-> FALSE, text |-> <<>>]
  ELSE IF outcomes[sources[i]] = "ok"
       THEN [consulted |-> Append(consulted, sources[i]), got |-> TRUE,
             text |-> SourceText(sources[i])]
       ELSE fetch_from(sources, outcomes, i + 1, Append(consulted, sources[i]))

\* fetch_text_from_sources(sources)
fetch_text_from_sources(sources, outcomes) == fetch_from(sources, outcomes, 1, <<>>)

\* a variant that asks the local files before the URLs
load_order_local_first(sources) ==
  FilterFrom(sources, {k \in 1..Len(sources) : ~IsHttp(sources[k])}, 1)
  \o FilterFrom(sources, {k \in 1..Len(sources) : IsHttp(sources[k])}, 1)

\* github_urls + local_files of load_category_data
load_order(sources) ==
  FilterFrom(sources, {k \in 1..Len(sources) : IsHttp(sources[k])}, 1)
  \o FilterFrom(sources, {k \in 1..Len(sources) : ~IsHttp(sources[k])}, 1)

NoFile == [exists |-> FALSE, items |-> <<>>]

\* no entry of the st.cache_data memo for a category
NoEntry == [cached |-> FALSE, items |-> <<>>]

\* the body of load_category_data(category, force_refresh) with the file json: what it
\* fetched, what it returns, and the file it leaves
load_body(category, json, outcomes, force_refresh) ==
  LET Result(f) ==
        IF ~f.got
        THEN [consulted |-> f.consulted, got |-> FALSE, text |-> <<>>,
              from |-> IF json.exists /\ ~force_refresh THEN "json" ELSE "nothing",
              items |-> IF json.exists /\ ~force_refresh THEN json.items ELSE <<>>,
              json |-> json]
        ELSE [consulted |-> f.consulted, got |-> TRUE, text |-> f.text, from |-> "sources",
              items |-> loader_parse_blocks(f.text),
              json |-> [exists |-> TRUE, items |-> loader_parse_blocks(f.text)]]
  IN Result(fetch_text_from_sources(load_order(DATA_SOURCES[category]), outcomes))

\* the files and the memo a call found, kept for the calls of refresh_category_cache
NoBefore == [json |-> <<>>, cache |-> <<>>]

NoCall ==
  [fn |-> "none", category |-> "", outcomes |-> <<>>, consulted |-> <<>>, got |-> FALSE,
   text |-> <<>>, from |-> "nothing", items |-> <<>>, before |-> NoBefore]

(***************************************************************************)
(* neighborhood_mapping.py                                                 *)
(***************************************************************************)
\* NEIGHBORHOOD_TO_ZIPS, in dictionary order (a repeated key keeps its first position)
NEIGHBORHOOD_TO_ZIPS ==
  << <<"rogers park", <<"60626", "60645">>>>, <<"uptown", <<"60613", "60640", "60657">>>>,
     <<"lincoln square", <<"60625", "60640">>>>,
     <<"lakeview", <<"60613", "60614", "60657">>>>,
     <<"lincoln park", <<"60614", "60657">>>>, <<"old town", <<"60610", "60614">>>>,
     <<"gold coast", <<"60610", "60611">>>>,
     <<"river north", <<"60610", "60611", "60654">>>>,
     <<"loop", <<"60601", "60602", "60603", "60604">>>>,
     <<"south loop", <<"60605", "60616">>>>, <<"humboldt park", <<"60622", "60647">>>>,
     <<"west town", <<"60622", "60647">>>>, <<"wicker park", <<"60622">>>>,
     <<"bucktown", <<"60622">>>>, <<"ukrainian village", <<"60622">>>>,
     <<"logan square", <<"60647">>>>, <<"avondale", <<"60618", "60641">>>>,
     <<"irving park", <<"60618", "60641">>>>,
     <<"portage park", <<"60630", "60634", "60641">>>>, <<"austin", <<"60644", "60651">>>>,
     <<"garfield park", <<"60624", "60644">>>>, <<"lawndale", <<"60623", "60624">>>>,
     <<"little village", <<"60623", "60608">>>>, <<"pilsen", <<"60608", "60616">>>>,
     <<"bridgeport", <<"60608", "60616">>>>, <<"chinatown", <<"60616">>>>,
     <<"bronzeville", <<"60615", "60653">>>>, <<"hyde park", <<"60615", "60637">>>>,
     <<"kenwood", <<"60615", "60637">>>>, <<"woodlawn", <<"60615", "60637">>>>,
     <<"englewood", <<"60621", "60636">>>>, <<"auburn gresham", <<"60620", "60628">>>>,
     <<"chatham", <<"60619", "60620">>>>, <<"south shore", <<"60649">>>>,
     <<"calumet heights", <<"60617", "60619">>>>, <<"pullman", <<"60628">>>>,
     <<"roseland", <<"60628">>>>, <<"west pullman", <<"60628", "60643">>>>,
     <<"morgan park", <<"60643">>>>, <<"beverly", <<"60643">>>>, <<"ashburn", <<"60652">>>>,
     <<"archer heights", <<"60632", "60638">>>>, <<"brighton park", <<"60632", "60629">>>>,
     <<"mckinley park", <<"60609", "60632">>>>,
     <<"back of the yards", <<"60609", "60632">>>>, <<"new city", <<"60609", "60632">>>>,
     <<"gage park", <<"60629", "60632">>>>, <<"west lawn", <<"60629">>>>,
     <<"garfield ridge", <<"60638">>>>, <<"clearing", <<"60638">>>>,
     <<"west elsd", <<"60638">>>> >>

\* neighborhood_mapping.expand_neighborhood_query: the ZIP codes of every neighbourhood
\* named in the query, as the set that list(set(found_zips)) holds
expand_neighborhood_query(query) ==
  LET query_lower == Lower(query)
      named == {k \in 1..Len(NEIGHBORHOOD_TO_ZIPS) :
                  Contains(query_lower, NEIGHBORHOOD_TO_ZIPS[k][1])}
  IN UNION {Range(NEIGHBORHOOD_TO_ZIPS[k][2]) : k \in named}

(***************************************************************************)
(* chat_llama.py: detection, cleaning, expansion                           *)
(***************************************************************************)
\* BASE_SYNONYMS of chat_llama as <<category, key, synonyms>>
LLAMA_SYNONYMS ==
  << <<"common", "bilingual", {"arabic", "bilingual", "cantonese", "french", "hindi",
       "kannada", "mandarin", "polish", "spanish", "swahili", "taiwanese", "tamil",
       "tigrinya", "ukrainian", "urdu", "yoruba"}>>,
     <<"common", "hours", {"closing", "hours", "open", "schedule", "time", "times"}>>,
     <<"common", "address", {"address", "location", "where"}>>,
     <<"common", "phone", {"call", "contact", "number", "phone"}>>,
     <<"common", "website", {"link", "site", "website"}>>,
     <<"Healthcare", "dental", {"dental", "dentist", "mouth", "oral", "teeth", "tooth"}>>,
     <<"Healthcare", "pediatric", {"adolescent", "child", "children", "kid", "kids",
       "pediatric", "pediatrics", "youth"}>>,
     <<"Healthcare", "women", {"female", "gynecology", "midwifery", "ob gyn", "ob-gyn",
       "ob/gyn", "obgyn", "obstetrics", "prenatal", "woman", "women"}>>,
     <<"Healthcare", "mental", {"behavioral", "counseling", "counselor", "mental",
       "psychiatric", "psychiatry", "therapist", "therapy"}>>,
     <<"Healthcare", "primary", {"adult", "family", "family medicine",
       "internal medicine", "primary"}>>,
     <<"Healthcare", "immunization", {"immunization", "immunizations", "shots",
       "vaccination", "vaccinations", "vaccine", "vaccines"}>>,
     <<"Education", "esl", {"after school", "after-school", "citizenship", "classes",
       "english", "esl", "ged", "language", "literacy", "tutoring", "youth"}>>,
     <<"Resettlement / Legal / Shelter", "legal", {"asylum", "attorney", "daca",
       "family reunification", "immigration", "law", "legal"}>>,
     <<"Resettlement / Legal / Shelter", "shelter", {"emergency", "homeless", "housing",
       "shelter"}>>,
     <<"Resettlement / Legal / Shelter", "benefits", {"311", "benefits",
       "cash assistance", "food", "medicaid", "pantry", "snap"}>>,
     <<"Resettlement / Legal / Shelter", "resettlement", {"case management",
       "employment", "job readiness", "resettlement", "welcoming center"}>> >>

\* chat_llama.detect_zip_from_query: the values the call can return ("" for None).
\* zips[0] is the first element of list(set(...)), whose order is not fixed by the
\* program, so every ZIP of the named neighbourhoods is a possible answer.
llama_detect_zip_from_query(query) ==
  IF FirstZip(query) # "" THEN {FirstZip(query)}
  ELSE IF expand_neighborhood_query(query) # {} THEN expand_neighborhood_query(query)
  ELSE {""}

\* chat_llama.clean_query_of_zip
llama_clean_query_of_zip(query) == Strip(CollapseSpaces(RemoveZipsFrom(query, 1)))

\* the if/elif chains of chat_llama.detect_service_from_query: <<category, words, answer>>
LLAMA_SERVICE_RULES ==
  << <<"Healthcare", {"dental", "dentist", "teeth", "tooth", "oral"}, "dental">>,
     <<"Healthcare", {"pediatric", "children", "child", "kid", "kids", "youth"}, "pediatric">>,
     <<"Healthcare", {"mental", "counseling", "therapy", "psychiatry"}, "mental health">>,
     <<"Healthcare", {"women", "obgyn", "prenatal", "midwifery"}, "women's health">>,
     <<"Healthcare", {"immunization", "vaccination", "shots", "vaccine"}, "immunization">>,
     <<"Education", {"esl", "english", "language", "tutoring", "classes"}, "ESL">>,
     <<"Education", {"ged", "citizenship", "literacy"}, "GED/Citizenship">>,
     <<"Education", {"after-school", "after school", "youth"}, "Youth Programs">>,
     <<"Resettlement / Legal / Shelter",
       {"legal", "law", "attorney", "immigration", "asylum", "daca"}, "Legal Services">>,
     <<"Resettlement / Legal / Shelter",
       {"shelter", "housing", "emergency", "homeless"}, "Shelter/Housing">>,
     <<"Resettlement / Legal / Shelter",
       {"benefits", "snap", "medicaid", "cash assistance"}, "Benefits Assistance">>,
     <<"Resettlement / Legal / Shelter",
       {"resettlement", "case management", "employment", "job"}, "Resettlement Services">> >>

\* chat_llama.detect_service_from_query ("" for None)
llama_detect_service_from_query(query, category) ==
  LET query_lower == Lower(query)
      hits == {k \in 1..Len(LLAMA_SERVICE_RULES) :
                 /\ LLAMA_SERVICE_RULES[k][1] = category
                 /\ \E word \in LLAMA_SERVICE_RULES[k][2] : Contains(query_lower, word)}
  IN IF hits = {} THEN "" ELSE LLAMA_SERVICE_RULES[Min(hits)][3]

\* the days dictionary of chat_llama.detect_day_from_query, in dictionary order
LLAMA_DAY_KEYS ==
  << <<"monday", "Monday">>, <<"mon", "Monday">>, <<"tuesday", "Tuesday">>,
     <<"tue", "Tuesday">>, <<"tues", "Tuesday">>, <<"wednesday", "Wednesday">>,
     <<"wed", "Wednesday">>, <<"thursday", "Thursday">>, <<"thu", "Thursday">>,
     <<"thurs", "Thursday">>, <<"friday", "Friday">>, <<"fri", "Friday">>,
     <<"saturday", "Saturday">>, <<"sat", "Saturday">>, <<"sunday", "Sunday">>,
     <<"sun", "Sunday">> >>

\* chat_llama.detect_day_from_query ("" for None): the first key that is a substring
llama_detect_day_from_query(query) ==
  LET query_lower == Lower(query)
      hits == {k \in 1..Len(LLAMA_DAY_KEYS) : Contains(query_lower, LLAMA_DAY_KEYS[k][1])}
  IN IF hits = {} THEN "" ELSE LLAMA_DAY_KEYS[Min(hits)][2]

\* chat_llama.is_day_available_in_dataset
is_day_available_in_dataset(day, items) ==
  /\ day # "" /\ day # "All"
  /\ \E k \in 1..Len(items) :
       (items[k].hours_text # "" \/ DOMAIN items[k].hours # {}) /\ day \in AvailableDays(items[k])

RECURSIVE RemoveWordsFrom(_, _, _)
RemoveWordsFrom(s, words, i) ==
  IF i > Len(words) THEN s ELSE RemoveWordsFrom(RemoveWord(s, words[i]), words, i + 1)

\* chat_llama.clean_query_of_service_and_day
llama_clean_query_of_service_and_day(query, detected_service, detected_day) ==
  LET no_service == RemoveWordsFrom(query, Split(Lower(detected_service)), 1)
      no_day == RemoveWordsFrom(no_service, Split(Lower(detected_day)), 1)
  IN Strip(CollapseSpaces(no_day))

\* chat_llama.expand_terms; the sorted list is only counted and intersected by its
\* callers, so it is kept as the set of its elements
expand_terms(query, category) ==
  LET words == AlphaWords(Lower(query))
      hit == {k \in 1..Len(LLAMA_SYNONYMS) :
                /\ LLAMA_SYNONYMS[k][1] \in {"common", category}
                /\ (LLAMA_SYNONYMS[k][2] \in words \/ words \cap LLAMA_SYNONYMS[k][3] # {})}
  IN words \cup UNION {LLAMA_SYNONYMS[k][3] \cup {LLAMA_SYNONYMS[k][2]} : k \in hit}

\* re.search(r"\b(a1|a2|...)\b", s) without re.I
SearchWord(s, alts) == \E i \in 1..Len(s) : AltsAt(s, i, alts) # {}

\* the rules of chat_llama.must_have_patterns: <<category, trigger terms, pattern>>
LLAMA_MUST_HAVE ==
  << <<"Healthcare", {"dental", "dentist", "oral", "tooth", "teeth"},
       <<"dental", "dentist", "oral">> >>,
     <<"Healthcare", {"pediatric", "children", "youth", "adolescent", "kid", "kids"},
       <<"pediatric", "children", "youth", "adolescent">> >>,
     <<"Resettlement / Legal / Shelter", {"legal", "immigration", "asylum", "daca"},
       <<"legal", "immigration", "asylum", "daca">> >>,
     <<"Resettlement / Legal / Shelter", {"shelter", "housing", "homeless", "emergency"},
       <<"shelter", "housing", "emergency">> >>,
     <<"Education", {"esl", "english", "literacy", "ged", "citizenship"},
       <<"esl", "english", "literacy", "ged", "citizenship">> >> >>

\* chat_llama.must_have_patterns: the patterns every kept record must match in its
\* services
llama_must_have_patterns(terms, category) ==
  {LLAMA_MUST_HAVE[k][3] : k \in {k \in 1..Len(LLAMA_MUST_HAVE) :
      LLAMA_MUST_HAVE[k][1] = category /\ LLAMA_MUST_HAVE[k][2] \cap terms # {}}}

\* the five +2 bonuses of chat_llama.rank_items
LLAMA_BONUS ==
  << <<"dental", "dentist", "oral">>,
     <<"pediatric", "children", "youth", "adolescent">>,
     <<"legal", "immigration", "asylum", "daca">>,
     <<"esl", "english", "literacy", "ged", "citizenship">>,
     <<"shelter", "housing", "emergency">> >>

\* the hard filters of chat_llama.rank_items
llama_passes_filters(c, zip_filter, lang_filter, service_filter, day_filter) ==
  /\ zip_filter = "All" \/ c.zip_code = "" \/ c.zip_code = zip_filter
  /\ lang_filter = "All"
       \/ \E k \in 1..Len(c.languages) : Contains(Lower(c.languages[k]), Lower(lang_filter))
  /\ service_filter = "All"
       \/ \E k \in 1..Len(c.services) : Contains(Lower(c.services[k]), Lower(service_filter))
  /\ day_filter = "All"
       \/ ((c.hours_text # "" \/ DOMAIN c.hours # {}) /\ day_filter \in AvailableDays(c))

\* the score chat_llama.rank_items gives one record that passed the filters
llama_score(c, query, terms) ==
  LET blob == c.search_blob
      svc == Lower(Join(c.services, " "))
      base == IF terms = {} THEN 1 ELSE Cardinality({t \in terms : Contains(blob, t)})
      bonus == Cardinality({k \in 1..Len(LLAMA_BONUS) :
                  SearchWord(Lower(query), LLAMA_BONUS[k]) /\ SearchWord(svc, LLAMA_BONUS[k])})
  IN base + 2 * bonus

\* ranked.sort(key=lambda x: (-x[0], x[1]["name"])) on <<score, index>> pairs
llama_sorts_before(a, b, items) ==
  \/ a[1] > b[1]
  \/ (a[1] = b[1] /\ StrLess(items[a[2]].name, items[b[2]].name))

\* ranked.append((score, c)) for the kept records, in dataset order
RECURSIVE llama_scored_from(_, _, _, _, _)
llama_scored_from(items, query, terms, kept, i) ==
  IF i > Len(items) THEN <<>>
  ELSE (IF i \in kept THEN << <<llama_score(items[i], query, terms), i>> >> ELSE <<>>)
       \o llama_scored_from(items, query, terms, kept, i + 1)

\* chat_llama.rank_items: the list of <<score, index of the record in items>>
llama_rank_items(items, query, category, zip_filter, lang_filter, service_filter, day_filter) ==
  LET terms == expand_terms(query, category)
      require == llama_must_have_patterns(terms, category)
      kept == {k \in 1..Len(items) :
                 /\ llama_passes_filters(items[k], zip_filter, lang_filter, service_filter,
                                         day_filter)
                 /\ \A p \in require : SearchWord(Lower(Join(items[k].services, " ")), p)
                 /\ llama_score(items[k], query, terms) > 0}
      ranked == llama_scored_from(items, query, terms, kept, 1)
  IN StableSort(ranked, LAMBDA a, b : llama_sorts_before(a, b, items))

(***************************************************************************)
(* Bounds and inputs                                                       *)
(***************************************************************************)
\* chat inputs handled in one session
MaxCalls == 2

\* records in the dataset of one rank call
MaxItems == 2

Apps == {"opt", "llama"}

Categories == {"Healthcare", "Education"}

\* what the user types into st.chat_input
UserTexts == {"dental", "dental care", "dental 60623 monday", "dental sunday", "more"}

\* the values the user picks in the sidebar selectboxes
SidebarZips == {"All", "60623"}
SidebarDays == {"All", "monday", "Monday"}

\* data_loader.get_dataset(category): the parsed records of the category
Dataset(category) ==
  IF category = "Healthcare" THEN <<RecWest, RecLawn, RecEast, RecVan, RecLake>>
  ELSE <<RecEsl>>

\* two rapidfuzz oracles: every record alike, or the values of RfSteep by name
RfSteep ==
  ("west dental" :> 10000) @@ ("lawn kids care" :> 0) @@ ("east dental" :> 30000)
  @@ ("van dental" :> 50000) @@ ("lake dental" :> 70000) @@ ("esl class" :> 40000)

RECURSIVE FuzzFrom(_, _, _)
FuzzFrom(items, profile, i) ==
  IF i > Len(items) THEN <<>>
  ELSE <<IF profile = "flat" THEN 30000 ELSE RfSteep[items[i].name]>>
       \o FuzzFrom(items, profile, i + 1)

FuzzOf(items, profile) == FuzzFrom(items, profile, 1)

\* the instants datetime.now() can answer
Nows == {[day |-> "monday", secs |-> 36000], [day |-> "tuesday", secs |-> 36000]}

\* the instant of a session; its texts hold no timing word, so no score reads it
SessionNow == [day |-> "monday", secs |-> 36000]

\* the records a rank call can be given, and the datasets made of them
Pool == <<RecWest, RecEast, RecVan, RecLawn>>

RECURSIVE SeqsUpTo(_)
SeqsUpTo(n) ==
  IF n = 0 THEN {<<>>}
  ELSE SeqsUpTo(n - 1)
       \cup {Append(d, k) : d \in {e \in SeqsUpTo(n - 1) : Len(e) = n - 1}, k \in 1..Len(Pool)}

RECURSIVE PoolRecords(_, _)
PoolRecords(ks, i) == IF i > Len(ks) THEN <<>> ELSE <<Pool[ks[i]]>> \o PoolRecords(ks, i + 1)

\* the datasets of at most MaxItems different records, in every order
RankDatasets ==
  {PoolRecords(ks, 1) : ks \in {d \in SeqsUpTo(MaxItems) :
                                  \A i, j \in 1..Len(d) : i # j => d[i] # d[j]}}

RankQueries == {"dental open now", "dental", "dental care", "xq", " "}

RankZips == {"All", "60623"}

RankDays == {"All", "monday", "Wednesday"}

FuzzProfiles == {"flat", "steep"}

\* the prompts of a session with misspelled words
AskTexts == {"dentall 60623", "Yes", "no", "dental"}

\* the lines of the texts handed to parse_blocks, and the longest text
ParseLines ==
  {"1. west dental", "3. east dental", "address: 1 a 60623", "9 z chicago 10001 606081",
   "kids care", ""}

MaxLines == 4

\* the tokens of the hours texts, and the most tokens of a text
HoursTokens == {"mon-thu", "fri-mon", "wed", "sat", "9-17", "9"}

MaxTokens == 3

\* the words of the queries given to detect_zip_from_query, and the most words of one
ZipQueryWords == {"dental", "near", "uptown", "wicker park", "loop", "60623"}

MaxWords == 3

\* the words of the services texts and of the queries of a scored record, and the most
\* words of each
ScoreWords == {"dental", "pediatric", "women", "xq"}

MaxScoreWords == 2

\* the lines that follow the first line of a block, and the most of them in a block
FieldLines ==
  {"website: w.org", "@ w.org", "web: see https://w.org now", "languages: arabic",
   "language: spanish, polish", "hours: wed 9-17", "kids care"}

MaxFieldLines == 2

\* the items with a pin button: two records of every category
PinItems ==
  {[category |-> c, id |-> i, name |-> "clinic " \o i] :
     c \in {"Healthcare", "Education"}, i \in {"1", "2"}}

\* the loading calls of one run
MaxLoads == 3

(***************************************************************************)
(* The session: sidebar, chat input and respond_to_query                   *)
(***************************************************************************)
\* TOP_N and MORE_N of app_optimized, TOP_N of chat_llama
TOP_N == 10
MORE_N == 10
llama_TOP_N == 3

\* the keys of chat_llama.MISSPELLING_SUGGESTIONS
MISSPELLINGS ==
  {"dentall", "dentel", "dentle", "pediatrik", "terapy", "theraphy", "klinik", "clinik",
   "inglish", "skool", "klas", "leagal", "leagle", "imigration", "asilum", "halp", "nead",
   "faind", "neer", "cloes"}

\* chat_llama.detect_misspellings: the misspelled words of the query
detect_misspellings(query) == Range(Split(Lower(query))) \cap MISSPELLINGS

RECURSIVE IdsFrom(_, _, _)
IdsFrom(items, idxs, p) ==
  IF p > Len(idxs) THEN <<>> ELSE <<items[idxs[p]].id>> \o IdsFrom(items, idxs, p + 1)

\* [c["id"] for c in the records at the positions idxs]
IdsOf(items, idxs) == IdsFrom(items, idxs, 1)

RECURSIVE IndexesFrom(_, _)
IndexesFrom(ranked, p) ==
  IF p > Len(ranked) THEN <<>> ELSE <<ranked[p][2]>> \o IndexesFrom(ranked, p + 1)

\* fresh = [c for _, c in ranked if c["id"] not in prev_ids], as positions in items
Fresh(items, ranked, prev_ids) ==
  LET idxs == IndexesFrom(ranked, 1)
  IN FilterFrom(idxs, {p \in 1..Len(idxs) : items[idxs[p]].id \notin prev_ids}, 1)

\* a or b or "All" for strings, "" standing for None
OrAll(a, b) == IF a # "" THEN a ELSE IF b # "" THEN b ELSE "All"

NoReply ==
  [kind |-> "none", text |-> "", category |-> "", is_more |-> FALSE, query |-> "",
   detected_day |-> "", zf |-> "All", sf |-> "All", df |-> "All", sidebar |-> <<"All", "All">>,
   ranked |-> <<>>, prev_ids |-> {}, to_show |-> <<>>]

NoChain == [text |-> "", earlier |-> "", used |-> <<>>, sidebar |-> <<>>, ranked |-> <<>>,
            pages |-> <<>>]

\* app_optimized.respond_to_query, the message drawn: kind "error" is the early return
\* of a "more" with no stored query, "cards" a page of results, "empty" the no-match
\* message
opt_reply(user_text, category, is_more, query, detected_day, zf, sf, df, ranked, prev_ids, to_show) ==
  IF is_more /\ query = ""
  THEN [NoReply EXCEPT !.kind = "error", !.text = user_text, !.category = category,
                       !.is_more = TRUE]
  ELSE [kind |-> IF to_show = <<>> THEN "empty" ELSE "cards",
        text |-> user_text, category |-> category, is_more |-> is_more, query |-> query,
        detected_day |-> detected_day, zf |-> zf, sf |-> sf, df |-> df,
        sidebar |-> <<zip_by_cat[category], day_by_cat[category]>>,
        ranked |-> ranked, prev_ids |-> prev_ids, to_show |-> to_show]

\* app_optimized.respond_to_query, the pagination: the records not shown before
opt_paginate(user_text, category, is_more, query, detected_day, zf, sf, df, items, ranked, prev_ids) ==
  opt_reply(user_text, category, is_more, query, detected_day, zf, sf, df, ranked, prev_ids,
            Take(Fresh(items, ranked, prev_ids),
                 IF is_more \/ show_more THEN MORE_N ELSE TOP_N))

\* app_optimized.respond_to_query, the search with the effective filters
opt_search(user_text, category, is_more, query, detected_day, zf, sf, df, items) ==
  opt_paginate(user_text, category, is_more, query, detected_day, zf, sf, df, items,
               search_rank_items(items, FuzzOf(items, "flat"), SessionNow, query, category,
                                 zf, "All", sf, df),
               shown_ids_by_cat[category])

\* app_optimized.respond_to_query, the cleaned query and the choice between detected
\* and sidebar filters
opt_filters(user_text, category, is_more, stored, detected_zip, detected_service, detected_day, items) ==
  opt_search(user_text, category, is_more,
             IF is_more THEN stored
             ELSE search_clean_query_of_service_and_day(
                    search_clean_query_of_zip(stored), detected_service, detected_day),
             detected_day,
             OrAll(detected_zip, zip_by_cat[category]),
             OrAll(detected_service, "All"),
             OrAll(detected_day, day_by_cat[category]),
             items)

\* app_optimized.respond_to_query, the detection, skipped for "more"
opt_detect(user_text, category, is_more, stored) ==
  opt_filters(user_text, category, is_more, stored,
              IF is_more THEN "" ELSE search_detect_zip_from_query(stored),
              IF is_more THEN "" ELSE search_detect_service_from_query(stored, category),
              IF is_more THEN "" ELSE search_detect_day_from_query(stored),
              datasets_cache[category])

\* app_optimized.respond_to_query, the query: the stored one for "more"
opt_query(user_text, category, is_more) ==
  opt_detect(user_text, category, is_more,
             IF is_more THEN last_query_by_cat[category] ELSE user_text)

\* the run of app_optimized.respond_to_query on user_text
opt_respond(user_text) ==
  opt_query(user_text, session_category, Lower(Strip(user_text)) = "more")

\* re.sub(r"\bclinic(s)?\b", "", query, flags=re.IGNORECASE)
remove_clinic(query) == RemoveWord(RemoveWord(query, "clinics"), "clinic")

\* chat_llama.respond_to_query, the message drawn: kind "error" is the early return on
\* an empty dataset, "map" a page drawn on the map, "cards" a page of cards, "empty"
\* the no-match message
llama_reply(user_text, category, is_more, query, named_day, zf, sf, df, items, ranked, prev_ids, to_show) ==
  IF Len(items) = 0
  THEN [NoReply EXCEPT !.kind = "error", !.text = user_text, !.category = category,
                       !.is_more = is_more]
  ELSE [kind |-> IF to_show = <<>> THEN "empty"
                 ELSE IF view_mode_by_cat[category] = "map" THEN "map" ELSE "cards",
        text |-> user_text, category |-> category, is_more |-> is_more, query |-> query,
        detected_day |-> named_day, zf |-> zf, sf |-> sf, df |-> df,
        sidebar |-> <<zip_by_cat[category], day_by_cat[category]>>,
        ranked |-> ranked, prev_ids |-> prev_ids, to_show |-> to_show]

\* chat_llama.respond_to_query, the pagination: the records not shown before
llama_paginate(user_text, category, is_more, query, named_day, zf, sf, df, items, ranked, prev_ids) ==
  llama_reply(user_text, category, is_more, query, named_day, zf, sf, df, items, ranked,
              prev_ids, Take(Fresh(items, ranked, prev_ids), llama_TOP_N))

\* chat_llama.respond_to_query, the ranking with the effective filters
llama_search(user_text, category, is_more, query, named_day, zf, sf, df, items) ==
  llama_paginate(user_text, category, is_more, query, named_day, zf, sf, df, items,
                 llama_rank_items(items, query, category, zf, "All", sf, df),
                 shown_ids_by_cat[category])

\* the ZIP is taken out of the query when one was detected
llama_zip_cleaned(query, detected_zip) ==
  IF detected_zip # "" THEN llama_clean_query_of_zip(query) ELSE query

\* chat_llama.respond_to_query, the cleaned query and the choice between detected and
\* sidebar filters; detected_day is "" when the named day is in no record's hours
llama_filters(user_text, detected_zip, category, is_more, stored, detected_service, named_day, detected_day, items) ==
  llama_search(user_text, category, is_more,
               IF detected_zip = "" /\ detected_service = "" /\ detected_day = "" THEN stored
               ELSE llama_zip_cleaned(
                      llama_clean_query_of_service_and_day(stored, detected_service,
                                                           detected_day),
                      detected_zip),
               named_day,
               OrAll(detected_zip, zip_by_cat[category]),
               OrAll(detected_service, "All"),
               OrAll(detected_day, day_by_cat[category]),
               items)

\* chat_llama.respond_to_query, the check of the named day against the dataset
llama_available(user_text, detected_zip, category, is_more, stored, detected_service, named_day, items) ==
  llama_filters(user_text, detected_zip, category, is_more, stored, detected_service,
                named_day,
                IF named_day # "" /\ ~is_day_available_in_dataset(named_day, items) THEN ""
                ELSE named_day,
                items)

\* chat_llama.respond_to_query, the detection, skipped for "more"
llama_detect(user_text, detected_zip, category, is_more, stored) ==
  llama_available(user_text, detected_zip, category, is_more, stored,
                  IF is_more THEN "" ELSE llama_detect_service_from_query(stored, category),
                  IF is_more THEN "" ELSE llama_detect_day_from_query(stored),
                  datasets_cache[category])

\* chat_llama.respond_to_query, the query: the stored one for "more", else the text
\* without the word clinic in Healthcare
llama_query(user_text, detected_zip, category, is_more) ==
  llama_detect(user_text, detected_zip, category, is_more,
               IF is_more THEN last_query_by_cat[category]
               ELSE IF category = "Healthcare" THEN remove_clinic(user_text)
               ELSE user_text)

\* the run of chat_llama.respond_to_query on user_text when detect_zip_from_query
\* answers detected_zip
llama_respond(user_text, detected_zip) ==
  llama_query(user_text, detected_zip, session_category, Lower(Strip(user_text)) = "more")

\* the history kept about the queries of the category on display: a new query starts a
\* history, a "more" adds its page to it; kind "rerun" drew no page
chain_after(r, items) ==
  IF r.kind = "error" THEN chain
  ELSE IF ~r.is_more
       THEN [text |-> r.text, earlier |-> chain.text,
             used |-> <<r.query, r.zf, r.sf, r.df>>, sidebar |-> r.sidebar,
             ranked |-> IdsOf(items, IndexesFrom(r.ranked, 1)),
             pages |-> IF r.kind = "rerun" THEN <<>> ELSE <<IdsOf(items, r.to_show)>>]
       ELSE IF chain.text = "" \/ r.kind = "rerun" THEN chain
       ELSE [chain EXCEPT !.pages = Append(@, IdsOf(items, r.to_show))]

\* what last_event holds: the kind of the event and, for a chat input, the prompt and
\* the misspelling state the prompt found
NoEvent == [kind |-> "none", prompt |-> "", was_waiting |-> FALSE, suggestion |-> ""]

SidebarEvent == [kind |-> "sidebar", prompt |-> "", was_waiting |-> FALSE, suggestion |-> ""]

ResetEvent == [kind |-> "reset", prompt |-> "", was_waiting |-> FALSE, suggestion |-> ""]

PromptEvent(user_text) ==
  [kind |-> "prompt", prompt |-> user_text, was_waiting |-> waiting_for_misspelling_response,
   suggestion |-> misspelling_suggestion]

\* the session state defaults of the misspelling prompt
IdleConfirm ==
  /\ misspelling_suggestion = ""
  /\ waiting_for_misspelling_response = FALSE
  /\ last_event = NoEvent

\* no loading call and no parse call was made
IdleLoad ==
  /\ json_file = [c \in Categories |-> NoFile]
  /\ load_cache = [c \in Categories |-> NoEntry]
  /\ load_call = NoCall
  /\ persisted = [c \in Categories |-> NoFile]
  /\ loads = 0

IdleParse ==
  /\ parse_input = <<>>
  /\ parse_engine = "none"
  /\ parse_output = <<>>

\* no text function was called
IdleFn ==
  /\ fn_input = <<>>
  /\ fn_name = "none"
  /\ fn_output = <<>>

\* no call of toggle_pin yet
NoPin == [category |-> "", id |-> "", name |-> ""]

NoPinCall == [toggled |-> NoPin, before |-> <<>>, previous |-> NoPin, before_previous |-> <<>>]

\* st.session_state.setdefault("pinned", [])
IdlePins ==
  /\ pinned = <<>>
  /\ pin_call = NoPinCall

IdleMore == IdleFn /\ IdlePins

IdleRank ==
  [items |-> <<>>, profile |-> "flat", now |-> SessionNow, query |-> "", zip_filter |-> "All",
   day_filter |-> "All"]

Init ==
  /\ app \in Apps
  /\ datasets_cache = [c \in Categories |-> Dataset(c)]
  /\ session_category = "Healthcare"
  /\ last_query_by_cat = [c \in Categories |-> ""]
  /\ shown_ids_by_cat = [c \in Categories |-> {}]
  /\ show_more = FALSE
  /\ view_mode_by_cat = [c \in Categories |-> "list"]
  /\ zip_by_cat = [c \in Categories |-> "All"]
  /\ day_by_cat = [c \in Categories |-> "All"]
  /\ reply = NoReply
  /\ chain = NoChain
  /\ calls = 0
  /\ rank_input = IdleRank
  /\ rank_engine = "none"
  /\ rank_output = <<>>
  /\ IdleConfirm
  /\ IdleLoad
  /\ IdleParse
  /\ IdleMore

\* the category radio: app_optimized empties the shown ids of the category it enters
SelectCategory(c) ==
  /\ calls < MaxCalls
  /\ c # session_category
  /\ session_category' = c
  /\ shown_ids_by_cat' = IF app = "opt" THEN [shown_ids_by_cat EXCEPT ![c] = {}]
                         ELSE shown_ids_by_cat
  /\ show_more' = IF app = "opt" THEN FALSE ELSE show_more
  /\ reply' = NoReply
  /\ chain' = NoChain
  /\ UNCHANGED <<app, datasets_cache, last_query_by_cat, view_mode_by_cat, zip_by_cat, day_by_cat, calls,
                 rank_vars, aux_vars,
                 misspelling_suggestion, waiting_for_misspelling_response>>
  /\ last_event' = SidebarEvent

\* the ZIP selectbox; its options are the ZIP codes of the dataset
SelectZip(z) ==
  /\ calls < MaxCalls
  /\ z # zip_by_cat[session_category]
  /\ z = "All" \/ \E k \in 1..Len(datasets_cache[session_category]) :
                     datasets_cache[session_category][k].zip_code = z
  /\ zip_by_cat' = [zip_by_cat EXCEPT ![session_category] = z]
  /\ reply' = NoReply
  /\ UNCHANGED <<app, datasets_cache, session_category, last_query_by_cat, shown_ids_by_cat, show_more,
                 view_mode_by_cat, day_by_cat, chain, calls, rank_vars, aux_vars,
                 misspelling_suggestion, waiting_for_misspelling_response>>
  /\ last_event' = SidebarEvent

\* the day selectbox; ui_components offers the keys of the hours mappings, chat_llama
\* the days parse_day_ranges finds
SelectDay(d) ==
  /\ calls < MaxCalls
  /\ d # day_by_cat[session_category]
  /\ \/ d = "All"
     \/ /\ app = "opt"
        /\ \E k \in 1..Len(datasets_cache[session_category]) :
              d \in DOMAIN datasets_cache[session_category][k].hours
     \/ /\ app = "llama"
        /\ \E k \in 1..Len(datasets_cache[session_category]) :
              /\ datasets_cache[session_category][k].hours_text # ""
                   \/ DOMAIN datasets_cache[session_category][k].hours # {}
              /\ d \in AvailableDays(datasets_cache[session_category][k])
  /\ day_by_cat' = [day_by_cat EXCEPT ![session_category] = d]
  /\ reply' = NoReply
  /\ UNCHANGED <<app, datasets_cache, session_category, last_query_by_cat, shown_ids_by_cat, show_more,
                 view_mode_by_cat, zip_by_cat, chain, calls, rank_vars, aux_vars,
                 misspelling_suggestion, waiting_for_misspelling_response>>
  /\ last_event' = SidebarEvent

\* a Reset Chat that clears the waiting flag and keeps the suggested query
ResetChatKeepingTheSuggestion ==
  /\ calls < MaxCalls
  /\ last_query_by_cat' = [c \in Categories |-> ""]
  /\ shown_ids_by_cat' = [c \in Categories |-> {}]
  /\ misspelling_suggestion' = misspelling_suggestion
  /\ waiting_for_misspelling_response' = FALSE
  /\ last_event' = ResetEvent
  /\ reply' = NoReply
  /\ chain' = NoChain
  /\ UNCHANGED <<app, datasets_cache, session_category, show_more, view_mode_by_cat, zip_by_cat, day_by_cat,
                 calls, rank_vars, aux_vars>>

\* the Reset Chat button
ResetChat ==
  /\ calls < MaxCalls
  /\ last_query_by_cat' = [c \in Categories |-> ""]
  /\ shown_ids_by_cat' = [c \in Categories |-> {}]
  /\ misspelling_suggestion' = ""
  /\ waiting_for_misspelling_response' = FALSE
  /\ last_event' = ResetEvent
  /\ reply' = NoReply
  /\ chain' = NoChain
  /\ UNCHANGED <<app, datasets_cache, session_category, show_more, view_mode_by_cat, zip_by_cat, day_by_cat,
                 calls, rank_vars, aux_vars>>

\* app_optimized: the session state after respond_to_query computed r; clicked is the
\* answer of the Show More Results button, drawn when ranked records remain
OptStore(user_text, clicked, r, shown) ==
  /\ clicked => r.kind = "cards" /\ Len(r.ranked) > Cardinality(shown)
  /\ reply' = r
  /\ chain' = chain_after(r, datasets_cache[session_category])
  /\ IF r.kind = "error"
     THEN UNCHANGED <<last_query_by_cat, shown_ids_by_cat, show_more>>
     ELSE /\ last_query_by_cat' =
               IF r.is_more THEN last_query_by_cat
               ELSE [last_query_by_cat EXCEPT ![session_category] = user_text]
          /\ shown_ids_by_cat' = [shown_ids_by_cat EXCEPT ![session_category] = shown]
          /\ show_more' = clicked

OptShown(user_text, clicked, r) ==
  OptStore(user_text, clicked, r,
           r.prev_ids \cup Range(IdsOf(datasets_cache[session_category], r.to_show)))

\* st.chat_input in app_optimized
OptChatInput(user_text, clicked) ==
  /\ app = "opt"
  /\ calls < MaxCalls
  /\ OptShown(user_text, clicked, opt_respond(user_text))
  /\ calls' = calls + 1
  /\ last_event' = PromptEvent(user_text)
  /\ UNCHANGED <<misspelling_suggestion, waiting_for_misspelling_response>>
  /\ UNCHANGED <<app, datasets_cache, session_category, view_mode_by_cat, zip_by_cat,
                 day_by_cat, rank_vars, aux_vars>>

\* chat_llama: the session state after respond_to_query computed r. toggled is the
\* answer of the Map View / List View button, drawn above the results: when it is
\* pressed the view mode flips and st.rerun() ends the run before the page is drawn.
\* The shown ids are recorded by the list view only.
LlamaStore(r, toggled) ==
  /\ toggled => r.kind \in {"cards", "map"}
  /\ reply' = IF toggled THEN [r EXCEPT !.kind = "rerun"] ELSE r
  /\ chain' = chain_after(IF toggled THEN [r EXCEPT !.kind = "rerun"] ELSE r,
                          datasets_cache[session_category])
  /\ view_mode_by_cat' =
       IF toggled
       THEN [view_mode_by_cat EXCEPT ![session_category] = IF @ = "list" THEN "map" ELSE "list"]
       ELSE view_mode_by_cat
  /\ last_query_by_cat' =
       IF r.kind = "error" \/ r.is_more THEN last_query_by_cat
       ELSE [last_query_by_cat EXCEPT ![session_category] = r.query]
  /\ shown_ids_by_cat' =
       IF r.kind = "cards" /\ ~toggled
       THEN [shown_ids_by_cat EXCEPT ![session_category] =
               r.prev_ids \cup Range(IdsOf(datasets_cache[session_category], r.to_show))]
       ELSE shown_ids_by_cat

\* MISSPELLING_SUGGESTIONS of chat_llama.py
MISSPELLING_SUGGESTIONS ==
  ("dentall" :> "dental") @@ ("dentel" :> "dental") @@ ("dentle" :> "dental")
  @@ ("pediatrik" :> "pediatric") @@ ("terapy" :> "therapy") @@ ("theraphy" :> "therapy")
  @@ ("klinik" :> "clinic") @@ ("clinik" :> "clinic") @@ ("inglish" :> "english")
  @@ ("skool" :> "school") @@ ("klas" :> "class") @@ ("leagal" :> "legal")
  @@ ("leagle" :> "legal") @@ ("imigration" :> "immigration") @@ ("asilum" :> "asylum")
  @@ ("halp" :> "help") @@ ("nead" :> "need") @@ ("faind" :> "find") @@ ("neer" :> "near")
  @@ ("cloes" :> "close")

\* misspelling_suggestions[0][0]: the first word of the query that the table holds;
\* "" when detect_misspellings returns the empty list
first_misspelling(query) ==
  LET First(words) ==
        LET hit == {k \in 1..Len(words) : words[k] \in DOMAIN MISSPELLING_SUGGESTIONS}
        IN IF hit = {} THEN "" ELSE words[Min(hit)]
  IN First(Split(Lower(query)))

\* corrected_query = prompt.lower().replace(misspelled_word, suggested_correction)
corrected_query(prompt, misspelled_word) ==
  ReplaceFrom(Lower(prompt), misspelled_word, MISSPELLING_SUGGESTIONS[misspelled_word], 1)

AFFIRMATIVE == {"yes", "y", "yeah", "sure", "ok", "okay"}
NEGATIVE == {"no", "n", "nope", "not really"}

\* a chat input that knows no misspelling prompt: every text is searched
llama_prompt_without_confirmation(user_text, waiting, suggestion) ==
  [run |-> TRUE, search |-> user_text, waiting |-> FALSE, suggestion |-> ""]

\* what the chat input of chat_llama does with the prompt: whether respond_to_query
\* runs and on which text, and the misspelling state it leaves
llama_prompt(user_text, waiting, suggestion) ==
  IF waiting
  THEN IF Lower(user_text) \in AFFIRMATIVE
       THEN IF suggestion # ""
            THEN [run |-> TRUE, search |-> suggestion, waiting |-> FALSE, suggestion |-> ""]
            ELSE [run |-> FALSE, search |-> "", waiting |-> waiting, suggestion |-> suggestion]
       ELSE IF Lower(user_text) \in NEGATIVE
            THEN [run |-> FALSE, search |-> "", waiting |-> FALSE, suggestion |-> ""]
            ELSE [run |-> TRUE, search |-> user_text, waiting |-> FALSE, suggestion |-> ""]
  ELSE IF first_misspelling(user_text) # ""
       THEN [run |-> FALSE, search |-> "", waiting |-> TRUE,
             suggestion |-> corrected_query(user_text, first_misspelling(user_text))]
       ELSE [run |-> TRUE, search |-> user_text, waiting |-> waiting, suggestion |-> suggestion]

\* the values detect_zip_from_query can return for the text the prompt p searches
llama_zip_choices(p) ==
  IF ~p.run \/ Lower(Strip(p.search)) = "more" THEN {""}
  ELSE llama_detect_zip_from_query(
         IF session_category = "Healthcare" THEN remove_clinic(p.search) ELSE p.search)

\* the chat input of chat_llama handled as p says
LlamaPrompt(p, detected_zip, toggled) ==
  /\ IF p.run THEN LlamaStore(llama_respond(p.search, detected_zip), toggled)
     ELSE /\ ~toggled
          /\ reply' = NoReply
          /\ UNCHANGED <<chain, view_mode_by_cat, last_query_by_cat, shown_ids_by_cat>>
  /\ misspelling_suggestion' = p.suggestion
  /\ waiting_for_misspelling_response' = p.waiting

\* st.chat_input in chat_llama
LlamaChatInput(user_text, toggled) ==
  /\ app = "llama"
  /\ calls < MaxCalls
  /\ \E detected_zip \in llama_zip_choices(llama_prompt(user_text,
                             waiting_for_misspelling_response, misspelling_suggestion)) :
        LlamaPrompt(llama_prompt(user_text, waiting_for_misspelling_response,
                                 misspelling_suggestion), detected_zip, toggled)
  /\ calls' = calls + 1
  /\ last_event' = PromptEvent(user_text)
  /\ UNCHANGED <<app, datasets_cache, session_category, show_more, zip_by_cat, day_by_cat,
                 rank_vars, aux_vars>>

Next ==
  \/ \E c \in Categories : SelectCategory(c)
  \/ \E z \in SidebarZips : SelectZip(z)
  \/ \E d \in SidebarDays : SelectDay(d)
  \/ ResetChat
  \/ \E user_text \in UserTexts, clicked \in BOOLEAN : OptChatInput(user_text, clicked)
  \/ \E user_text \in UserTexts, toggled \in BOOLEAN : LlamaChatInput(user_text, toggled)

Spec == Init /\ [][Next]_vars

(***************************************************************************)
(* A chat_llama session of prompts and of replies to the misspelling       *)
(* question, with the Reset Chat button and the category radio             *)
(***************************************************************************)
InitAsk == Init /\ app = "llama"

NextAsk ==
  \/ \E user_text \in AskTexts, toggled \in BOOLEAN : LlamaChatInput(user_text, toggled)
  \/ \E c \in Categories : SelectCategory(c)
  \/ ResetChat

SpecAsk == InitAsk /\ [][NextAsk]_vars

(***************************************************************************)
(* One call of a rank function on arguments drawn from the input sets      *)
(***************************************************************************)
InitRank ==
  /\ app = "opt"
  /\ datasets_cache = [c \in Categories |-> Dataset(c)]
  /\ session_category = "Healthcare"
  /\ last_query_by_cat = [c \in Categories |-> ""]
  /\ shown_ids_by_cat = [c \in Categories |-> {}]
  /\ show_more = FALSE
  /\ view_mode_by_cat = [c \in Categories |-> "list"]
  /\ zip_by_cat = [c \in Categories |-> "All"]
  /\ day_by_cat = [c \in Categories |-> "All"]
  /\ reply = NoReply
  /\ chain = NoChain
  /\ calls = 0
  /\ rank_input \in [items : RankDatasets, profile : FuzzProfiles, now : Nows,
                     query : RankQueries, zip_filter : RankZips, day_filter : RankDays]
  /\ rank_engine = "none"
  /\ rank_output = <<>>
  /\ IdleConfirm
  /\ IdleLoad
  /\ IdleParse
  /\ IdleMore

\* search.rank_items applied to the arguments
RankSearch ==
  /\ rank_engine = "none"
  /\ rank_engine' = "search"
  /\ rank_output' =
       search_rank_items(rank_input.items, FuzzOf(rank_input.items, rank_input.profile),
                         rank_input.now, rank_input.query, "Healthcare",
                         rank_input.zip_filter, "All", "All", rank_input.day_filter)
  /\ UNCHANGED <<rank_input, session_vars, aux_vars>>

\* chat_llama.rank_items applied to the arguments
RankLlama ==
  /\ rank_engine = "none"
  /\ rank_engine' = "llama"
  /\ rank_output' =
       llama_rank_items(rank_input.items, rank_input.query, "Healthcare",
                        rank_input.zip_filter, "All", "All", rank_input.day_filter)
  /\ UNCHANGED <<rank_input, session_vars, aux_vars>>

NextRank == RankSearch \/ RankLlama

SpecRank == InitRank /\ [][NextRank]_vars

(***************************************************************************)
(* Loading the category Healthcare, the sources answering as they please   *)
(***************************************************************************)
\* a session that is not used
IdleSession ==
  /\ app = "opt"
  /\ datasets_cache = [c \in Categories |-> <<>>]
  /\ session_category = "Healthcare"
  /\ last_query_by_cat = [c \in Categories |-> ""]
  /\ shown_ids_by_cat = [c \in Categories |-> {}]
  /\ show_more = FALSE
  /\ view_mode_by_cat = [c \in Categories |-> "list"]
  /\ zip_by_cat = [c \in Categories |-> "All"]
  /\ day_by_cat = [c \in Categories |-> "All"]
  /\ reply = NoReply
  /\ chain = NoChain
  /\ calls = 0
  /\ IdleConfirm
  /\ rank_input = IdleRank
  /\ rank_engine = "none"
  /\ rank_output = <<>>

InitLoad == IdleSession /\ IdleLoad /\ IdleParse /\ IdleMore

\* the state after the body of load_category_data ran on the memo and its result r
\* was memoized
LoadStore(fn, category, outcomes, memo, r) ==
  /\ json_file' = [json_file EXCEPT ![category] = r.json]
  /\ load_cache' = [memo EXCEPT ![category] = [cached |-> TRUE, items |-> r.items]]
  /\ load_call' = [fn |-> fn, category |-> category, outcomes |-> outcomes,
                   consulted |-> r.consulted, got |-> r.got, text |-> r.text,
                   from |-> r.from, items |-> r.items,
                   before |-> IF fn = "refresh"
                              THEN [json |-> json_file, cache |-> load_cache] ELSE NoBefore]
  /\ persisted' = IF r.got THEN [persisted EXCEPT ![category] = r.json] ELSE persisted
  /\ loads' = loads + 1
  /\ UNCHANGED <<session_vars, rank_vars, parse_vars, more_vars>>

\* load_category_data(category) behind st.cache_data: the memo answers when it holds
\* the call, the body runs otherwise
LoadCategoryData(category, outcomes) ==
  /\ loads < MaxLoads
  /\ IF load_cache[category].cached
     THEN /\ load_call' = [fn |-> "load", category |-> category, outcomes |-> <<>>,
                           consulted |-> <<>>, got |-> FALSE, text |-> <<>>, from |-> "memo",
                           items |-> load_cache[category].items, before |-> NoBefore]
          /\ loads' = loads + 1
          /\ UNCHANGED <<json_file, load_cache, persisted, session_vars, rank_vars, parse_vars, more_vars>>
     ELSE LoadStore("load", category, outcomes, load_cache,
                    load_body(category, json_file[category], outcomes, FALSE))

\* a refresh that leaves data/<category>.json in place
RefreshKeepingTheFile(category, outcomes) ==
  /\ loads < MaxLoads
  /\ LoadStore("refresh", category, outcomes, [c \in Categories |-> NoEntry],
               load_body(category, json_file[category], outcomes, FALSE))

\* refresh_category_cache(category): the file is unlinked, load_category_data.clear()
\* empties the memo of the function, the category is loaded again
RefreshCategoryCache(category, outcomes) ==
  /\ loads < MaxLoads
  /\ LoadStore("refresh", category, outcomes, [c \in Categories |-> NoEntry],
               load_body(category, NoFile, outcomes, FALSE))

\* the memo entry of the category is older than ttl=300 seconds
ExpireCache(category) ==
  /\ load_cache[category].cached
  /\ load_cache' = [load_cache EXCEPT ![category] = NoEntry]
  /\ UNCHANGED <<json_file, load_call, persisted, loads, session_vars, rank_vars, parse_vars, more_vars>>

\* chat_llama.fetch_text_from_sources(DATA_SOURCES[cat_key]); got = FALSE: RuntimeError
LlamaFetch(outcomes) ==
  /\ loads < MaxLoads
  /\ LET Store(f) ==
           load_call' = [fn |-> "llama_fetch", category |-> "Healthcare", outcomes |-> outcomes,
                         consulted |-> f.consulted, got |-> f.got, text |-> f.text,
                         from |-> IF f.got THEN "sources" ELSE "nothing",
                         items |-> IF f.got THEN llama_parse_blocks(f.text) ELSE <<>>,
                         before |-> NoBefore]
     IN Store(fetch_text_from_sources(LLAMA_DATA_SOURCES, outcomes))
  /\ loads' = loads + 1
  /\ UNCHANGED <<json_file, load_cache, persisted, session_vars, rank_vars, parse_vars, more_vars>>

NextLoad ==
  \/ \E outcomes \in [Range(DATA_SOURCES["Healthcare"]) -> SourceOutcomes] :
       LoadCategoryData("Healthcare", outcomes)
  \/ \E outcomes \in [Range(DATA_SOURCES["Healthcare"]) -> SourceOutcomes] :
       RefreshCategoryCache("Healthcare", outcomes)
  \/ ExpireCache("Healthcare")
  \/ \E outcomes \in [Range(LLAMA_DATA_SOURCES) -> SourceOutcomes] : LlamaFetch(outcomes)

SpecLoad == InitLoad /\ [][NextLoad]_vars

(***************************************************************************)
(* Loading and refreshing two categories, each source answering or failing *)
(***************************************************************************)
RefreshOutcomes == {"error", "ok"}

NextRefresh ==
  \/ \E category \in Categories :
       \E outcomes \in [Range(DATA_SOURCES[category]) -> RefreshOutcomes] :
          LoadCategoryData(category, outcomes)
  \/ \E category \in Categories :
       \E outcomes \in [Range(DATA_SOURCES[category]) -> RefreshOutcomes] :
          RefreshCategoryCache(category, outcomes)
  \/ \E category \in Categories : ExpireCache(category)

SpecRefresh == InitLoad /\ [][NextRefresh]_vars

(***************************************************************************)
(* One parse of a text drawn from the lines of ParseLines, by parse_blocks *)
(* of data_loader.py or by parse_blocks of chat_llama.py                   *)
(***************************************************************************)
ParseTexts == UNION {[1..n -> ParseLines] : n \in 0..MaxLines}

InitParse ==
  /\ IdleSession
  /\ IdleLoad
  /\ parse_input \in ParseTexts
  /\ parse_engine = "none"
  /\ parse_output = <<>>
  /\ IdleMore

ParseLoader ==
  /\ parse_engine' = "loader"
  /\ parse_output' = loader_parse_blocks(parse_input)
  /\ UNCHANGED <<parse_input, session_vars, rank_vars, load_vars, more_vars>>

ParseLlama ==
  /\ parse_engine' = "llama"
  /\ parse_output' = llama_parse_blocks(parse_input)
  /\ UNCHANGED <<parse_input, session_vars, rank_vars, load_vars, more_vars>>

NextParse == ParseLoader \/ ParseLlama

SpecParse == InitParse /\ [][NextParse]_vars

(***************************************************************************)
(* One call of chat_llama.detect_zip_from_query on a query, given as the   *)
(* list of its words                                                       *)
(***************************************************************************)
ZipQueries == UNION {[1..n -> ZipQueryWords] : n \in 0..MaxWords}

QueryText(words) == Join(words, " ")

InitZip ==
  /\ IdleSession
  /\ IdleLoad
  /\ IdleParse
  /\ fn_input \in ZipQueries
  /\ fn_name = "none"
  /\ fn_output = <<>>
  /\ IdlePins

DetectZip ==
  /\ fn_name' = "detect_zip_from_query"
  /\ fn_output' \in llama_detect_zip_from_query(QueryText(fn_input))
  /\ UNCHANGED <<fn_input, session_vars, rank_vars, load_vars, parse_vars, pin_vars>>

NextZip == DetectZip

SpecZip == InitZip /\ [][NextZip]_vars

(***************************************************************************)
(* The pin buttons of a session: toggle_pin of ui_components.py and of     *)
(* chat_llama.py keep the same list, with other fields of the item         *)
(***************************************************************************)
\* toggle_pin(category, item) on the list pinned: the first entry of the pair
\* (category, id) is popped, or an entry of the item is appended
toggle_pin(pins, category, item) ==
  LET hits == {i \in 1..Len(pins) : pins[i].id = item.id /\ pins[i].category = category}
      Pop(i) == SubSeq(pins, 1, i - 1) \o SubSeq(pins, i + 1, Len(pins))
  IN IF hits # {} THEN Pop(CHOOSE i \in hits : \A k \in hits : i <= k)
     ELSE Append(pins, [category |-> category, id |-> item.id, name |-> item.name])

InitPins == IdleSession /\ IdleLoad /\ IdleParse /\ IdleMore

\* a click on the pin button of an item
TogglePin(item) ==
  /\ pinned' = toggle_pin(pinned, item.category, item)
  /\ pin_call' = [toggled |-> item,
                  before |-> pinned,
                  previous |-> pin_call.toggled,
                  before_previous |-> pin_call.before]
  /\ UNCHANGED <<session_vars, rank_vars, load_vars, parse_vars, fn_vars>>

NextPins == \E item \in PinItems : TogglePin(item)

SpecPins == InitPins /\ [][NextPins]_vars

(***************************************************************************)
(* The loop over the lines after the first of one block "1. west dental"   *)
(* of data_loader.parse_blocks, with the record after every line           *)
(***************************************************************************)
FieldBlocks == UNION {[1..n -> FieldLines] : n \in 0..MaxFieldLines}

InitFields ==
  /\ IdleSession
  /\ IdleLoad
  /\ IdleParse
  /\ fn_input \in FieldBlocks
  /\ fn_name = "none"
  /\ fn_output = <<>>
  /\ IdlePins

\* the record of the block after its first j lines that follow the heading
RecordAfter(lines, j) == loader_record(<<"1. west dental">> \o SubSeq(lines, 1, j), 0)

\* "for line in lines[1:]": fn_output[j + 1] is the record when j lines are read
ClassifyLines ==
  /\ fn_name' = "fields"
  /\ fn_output' = [j \in 1..(Len(fn_input) + 1) |-> RecordAfter(fn_input, j - 1)]
  /\ UNCHANGED <<fn_input, session_vars, rank_vars, load_vars, parse_vars, pin_vars>>

NextFields == ClassifyLines

SpecFields == InitFields /\ [][NextFields]_vars

(***************************************************************************)
(* The score search.rank_items gives the record "west dental" with a       *)
(* services text and for a query made of the words of ScoreWords           *)
(***************************************************************************)
ScoreTexts == {Join(ws, " ") : ws \in UNION {[1..n -> ScoreWords] : n \in 0..MaxScoreWords}}

\* the record of a block "1. west dental" with the Services line services_text
ScoredRecord(services_text) ==
  MkRecord("1", "west dental", "1 a 60623", services_text, <<"dental">>, <<"Dental">>, <<>>,
           "mon-fri 9-17")

InitScore ==
  /\ IdleSession
  /\ IdleLoad
  /\ IdleParse
  /\ fn_input \in [services_text : ScoreTexts, query : ScoreTexts \ {""}]
  /\ fn_name = "none"
  /\ fn_output = <<>>
  /\ IdlePins

\* the iteration of "for item in items" for the record, with its synonym bonus
ScoreRecord ==
  /\ fn_name' = "score"
  /\ fn_output' =
       [score |-> search_score(ScoredRecord(fn_input.services_text), 30000, SessionNow,
                               fn_input.query, extract_key_terms(fn_input.query),
                               expand_query_terms(fn_input.query)),
        synonym_bonus |-> search_synonym_bonus(Lower(fn_input.services_text),
                                               Lower(fn_input.query))]
  /\ UNCHANGED <<fn_input, session_vars, rank_vars, load_vars, parse_vars, pin_vars>>

NextScore == ScoreRecord

SpecScore == InitScore /\ [][NextScore]_vars

(***************************************************************************)
(* One call of parse_hours or of parse_day_ranges on an hours text, given   *)
(* as the list of its tokens                                                *)
(***************************************************************************)
HoursTexts == UNION {[1..n -> HoursTokens] : n \in 0..MaxTokens}

\* the hours text of the tokens
HoursText(tokens) == Join(tokens, " ")

InitHours ==
  /\ IdleSession
  /\ IdleLoad
  /\ IdleParse
  /\ fn_input \in HoursTexts
  /\ fn_name = "none"
  /\ fn_output = <<>>
  /\ IdlePins

ParseHours ==
  /\ fn_name' = "parse_hours"
  /\ fn_output' = parse_hours(HoursText(fn_input))
  /\ UNCHANGED <<fn_input, session_vars, rank_vars, load_vars, parse_vars, pin_vars>>

ParseDayRanges ==
  /\ fn_name' = "parse_day_ranges"
  /\ fn_output' = parse_day_ranges_text(HoursText(fn_input))
  /\ UNCHANGED <<fn_input, session_vars, rank_vars, load_vars, parse_vars, pin_vars>>

NextHours == ParseHours \/ ParseDayRanges

SpecHours == InitHours /\ [][NextHours]_vars

(***************************************************************************)
(* Properties                                                              *)
(***************************************************************************)
RECURSIVE Concat(_)
Concat(pages) == IF pages = <<>> THEN <<>> ELSE Head(pages) \o Concat(Tail(pages))

IsPrefix(a, b) == Len(a) <= Len(b) /\ SubSeq(b, 1, Len(a)) = a

\* the reply is the outcome of a run that ranked the dataset
Ranked == reply.kind \in {"cards", "map", "empty", "rerun"}

\* the page size of a first page
PageSize == IF app = "opt" THEN TOP_N ELSE llama_TOP_N

\* C1: over one query and the "more" requests that follow it in the same category, no
\* record id is drawn twice, neither on two pages nor on one page.
C1_NoIdTwice ==
  \A p, q \in 1..Len(Concat(chain.pages)) :
     p # q => Concat(chain.pages)[p] # Concat(chain.pages)[q]

\* C2: a "more" request, with the sidebar left as it was, ranks with the residual query
\* and the effective ZIP, service and day filters of the original query, and the pages
\* drawn so far, put end to end, are a prefix of the list ranked for the original query.
C2_MoreKeepsQueryAndFilters ==
  (Ranked /\ reply.is_more /\ chain.text # "" /\ reply.sidebar = chain.sidebar)
    => /\ <<reply.query, reply.zf, reply.sf, reply.df>> = chain.used
       /\ IsPrefix(Concat(chain.pages), chain.ranked)

\* C3: the first page of a new query is the top of its ranked list, whatever an
\* earlier, different query of the category has shown.
C3_NewQueryStartsAtTheTop ==
  (Ranked /\ ~reply.is_more /\ chain.earlier # "" /\ chain.earlier # chain.text)
    => reply.to_show = Take(IndexesFrom(reply.ranked, 1), PageSize)

\* the record returned at position k of the rank call
Returned(k) == rank_input.items[rank_output[k][2]]

\* C4: with a day filter other than "All", every record rank returns has the day as
\* a key of its hours mapping.
C4_DayFilterKeepsOnlyThatDay ==
  (rank_engine # "none" /\ rank_input.day_filter # "All")
    => \A k \in 1..Len(rank_output) :
          Lower(rank_input.day_filter) \in DOMAIN Returned(k).hours

\* C5: with a ZIP filter other than "All", every record rank returns has exactly that
\* zip_code.
C5_ZipFilterIsExact ==
  (rank_engine # "none" /\ rank_input.zip_filter # "All")
    => \A k \in 1..Len(rank_output) : Returned(k).zip_code = rank_input.zip_filter

\* C6: rank returns the empty list for an empty or whitespace-only query.
C6_EmptyQueryRanksNothing ==
  (rank_engine # "none" /\ Strip(rank_input.query) = "") => rank_output = <<>>

\* the record the end-to-end example is about
IsDental60623Monday(c) ==
  /\ c.zip_code = "60623"
  /\ \E k \in 1..Len(c.services) : c.services[k] = "dental"
  /\ "monday" \in DOMAIN c.hours

\* C7: the query "dental 60623 monday", on a dataset holding a dental record of ZIP
\* 60623 with monday hours, ranks that record with a score above zero.
C7_DentalZipDayFindsTheRecord ==
  (Ranked /\ reply.text = "dental 60623 monday" /\ reply.category = "Healthcare")
    => \E k \in 1..Len(reply.ranked) :
          /\ reply.ranked[k][1] > 0
          /\ IsDental60623Monday(datasets_cache["Healthcare"][reply.ranked[k][2]])

\* the query of the rank call expresses timing intent
RankTiming == wants_timing(rank_input.query, extract_key_terms(rank_input.query))

RankOpen(k) == is_open_now(Returned(k), rank_input.now)

\* C8: when the query expresses timing intent, search.rank_items returns every open
\* record before every closed one.
C8_OpenBeforeClosed ==
  (rank_engine = "search" /\ RankTiming)
    => \A i, j \in 1..Len(rank_output) : i < j => ~(~RankOpen(i) /\ RankOpen(j))

\* C8, the case: an open record is returned before a closed one of strictly higher score
C8_OpenBeforeHigherClosed ==
  /\ rank_engine = "search" /\ RankTiming
  /\ \E i, j \in 1..Len(rank_output) :
        i < j /\ RankOpen(i) /\ ~RankOpen(j) /\ rank_output[j][1] > rank_output[i][1]

\* C9: without timing intent, rank returns the records by descending score, and records
\* of equal score by ascending name.
C9_ScoreThenName ==
  (rank_engine # "none" /\ ~RankTiming)
    => \A i, j \in 1..Len(rank_output) :
          i < j => \/ rank_output[i][1] > rank_output[j][1]
                   \/ /\ rank_output[i][1] = rank_output[j][1]
                      /\ ~StrLess(Returned(j).name, Returned(i).name)

\* some record of the dataset has the day in its hours, as a key of the structured
\* mapping or as a day of its hours text
SomeRecordHasDay(day, items) ==
  \E k \in 1..Len(items) :
     Lower(day) \in DOMAIN items[k].hours \/ Capitalize(Lower(day)) \in AvailableDays(items[k])

\* C10: a day named in the query that no record of the dataset has in its hours is not
\* applied: the day filter of the ranking is the sidebar value.
C10_UnavailableDayIsDiscarded ==
  (Ranked /\ ~reply.is_more /\ reply.detected_day # ""
     /\ ~SomeRecordHasDay(reply.detected_day, datasets_cache[reply.category]))
    => reply.df = reply.sidebar[2]

\* the indexes of the records a rank call returned
RankKept == {rank_output[k][2] : k \in 1..Len(rank_output)}

\* record k of the input passes the hard filters of the rank function that was called
PassesHard(k) ==
  IF rank_engine = "search"
  THEN search_passes_filters(rank_input.items[k], rank_input.zip_filter, "All", "All",
                             rank_input.day_filter)
  ELSE llama_passes_filters(rank_input.items[k], rank_input.zip_filter, "All", "All",
                            rank_input.day_filter)

\* the score of record k is one the rank function keeps
ScoreKept(k) ==
  IF rank_engine = "search"
  THEN /\ Strip(rank_input.query) # ""
       /\ search_score(rank_input.items[k],
                       FuzzOf(rank_input.items, rank_input.profile)[k], rank_input.now,
                       rank_input.query, extract_key_terms(rank_input.query),
                       expand_query_terms(rank_input.query)) > SCORE_THRESHOLD
  ELSE llama_score(rank_input.items[k], rank_input.query,
                   expand_terms(rank_input.query, "Healthcare")) > 0

\* the query asks for a service and record k does not match its must-have pattern
MustHaveMisses(k) ==
  IF rank_engine = "search"
  THEN /\ search_must_have_patterns(rank_input.query) # {}
       /\ ~search_pattern_match(rank_input.items[k],
                                search_must_have_patterns(rank_input.query))
  ELSE \E p \in llama_must_have_patterns(expand_terms(rank_input.query, "Healthcare"),
                                         "Healthcare") :
          ~SearchWord(Lower(Join(rank_input.items[k].services, " ")), p)

\* C11: a record that passes the hard filters with a score the rank function keeps is
\* returned also when it does not match the must-have pattern of the query.
C11_MustHaveIsSoft ==
  rank_engine # "none"
    => \A k \in 1..Len(rank_input.items) :
         (PassesHard(k) /\ ScoreKept(k) /\ MustHaveMisses(k)) => k \in RankKept

\* a loading call that asked the sources
Fetched == load_call.fn # "none" /\ load_call.from # "memo"

\* the sources of the category in the order of their configuration
ConfiguredOrder ==
  IF load_call.fn = "llama_fetch" THEN LLAMA_DATA_SOURCES ELSE DATA_SOURCES[load_call.category]

\* C12: the sources are asked in their configured order; every source asked before the
\* last one failed or was empty; the text returned is the text of the last source
\* asked, which answered; when no text is returned every source was asked and failed.
C12_FirstSourceWithTextWins ==
  Fetched =>
    /\ IsPrefix(load_call.consulted, ConfiguredOrder)
    /\ \A i \in 1..(Len(load_call.consulted) - 1) :
         load_call.outcomes[load_call.consulted[i]] # "ok"
    /\ load_call.got =>
         /\ load_call.consulted # <<>>
         /\ load_call.outcomes[load_call.consulted[Len(load_call.consulted)]] = "ok"
         /\ load_call.text = SourceText(load_call.consulted[Len(load_call.consulted)])
    /\ ~load_call.got =>
         /\ load_call.consulted = ConfiguredOrder
         /\ \A i \in 1..Len(ConfiguredOrder) : load_call.outcomes[ConfiguredOrder[i]] # "ok"

\* the first source was empty and the second one gave the text of the load
C12_SecondSourceAnswers ==
  /\ load_call.fn = "load"
  /\ load_call.got
  /\ Len(load_call.consulted) = 2
  /\ load_call.outcomes[load_call.consulted[1]] = "empty"
  /\ load_call.text = LocalText

\* C13: a load during which every source failed returns the snapshot an earlier
\* successful load saved, and no record only when no snapshot was ever saved.
C13_FailedLoadReturnsTheSnapshot ==
  (load_call.fn \in {"load", "refresh"} /\ Fetched /\ ~load_call.got)
    => load_call.items = (IF persisted[load_call.category].exists
                          THEN persisted[load_call.category].items ELSE <<>>)

\* the last event was a chat input of chat_llama
Prompted == app = "llama" /\ last_event.kind = "prompt"

Searched == reply.kind # "none"

\* C14: in chat_llama a prompt with a misspelled word is not searched and leaves the
\* session waiting with the corrected text; while the session waits, an affirmative
\* reply searches the corrected text as a new query, a negative reply searches nothing
\* and any other reply is searched itself; after a reply the session does not wait.
C14_MisspellingConfirmationLoop ==
  Prompted =>
    IF ~last_event.was_waiting
    THEN first_misspelling(last_event.prompt) # ""
           => /\ ~Searched
              /\ waiting_for_misspelling_response
              /\ misspelling_suggestion
                   = corrected_query(last_event.prompt, first_misspelling(last_event.prompt))
    ELSE /\ ~waiting_for_misspelling_response
         /\ Lower(last_event.prompt) \in AFFIRMATIVE
              => Searched /\ reply.text = last_event.suggestion /\ ~reply.is_more
         /\ Lower(last_event.prompt) \in NEGATIVE => ~Searched
         /\ Lower(last_event.prompt) \notin AFFIRMATIVE \cup NEGATIVE
              => Searched /\ reply.text = last_event.prompt

\* the user confirmed "dental 60623" and its search drew the result
C14_ConfirmedAndSearched ==
  /\ Prompted
  /\ last_event.was_waiting
  /\ last_event.prompt = "Yes"
  /\ reply.text = "dental 60623"
  /\ reply.kind = "cards"
  /\ ~waiting_for_misspelling_response

\* C15: the records of one parse have pairwise different ids.
C15_IdsAreUnique ==
  parse_engine # "none"
    => \A i, j \in 1..Len(parse_output) : i # j => parse_output[i].id # parse_output[j].id

\* "" or five digits that begin with 60
IsChicagoZip(z) ==
  \/ z = ""
  \/ Len(z) = 5 /\ SubSeq(z, 1, 2) = "60" /\ \A k \in 3..5 : Ch(z, k) \in DigitChars

\* C16: every record of a parse has a ZIP that is empty or five digits beginning with 60.
C16_ZipIsEmptyOrChicago ==
  /\ parse_engine = "loader"
       => \A k \in 1..Len(parse_output) : IsChicagoZip(parse_output[k].zip_code)
  /\ parse_engine = "llama"
       => \A k \in 1..Len(parse_output) : IsChicagoZip(parse_output[k].zip)

\* one parse gave a record its ZIP 60623 and left the record whose address holds
\* other runs of digits without one
C16_ParsedWithAndWithoutZip ==
  /\ parse_engine = "loader"
  /\ \E k \in 1..Len(parse_output) : parse_output[k].zip_code = "60623"
  /\ \E k \in 1..Len(parse_output) :
       /\ parse_output[k].address = "9 z chicago 10001 606081"
       /\ parse_output[k].zip_code = ""

\* the most the three rapidfuzz ratios add to fuzzy_score: 0.3 + 0.25 + 0.2
RfMax == 75000

\* the score search.rank_items gives record k for the query, the rapidfuzz ratios adding rf
ScoreUnder(k, query, rf) ==
  search_score(rank_input.items[k], rf, rank_input.now, query, extract_key_terms(query),
               expand_query_terms(query))

\* the words of the name of record k that the query does not hold
NewNameWords(k) ==
  Range(Split(Lower(rank_input.items[k].name))) \ Range(Split(Lower(rank_input.query)))

\* C17: a query with one more keyword, a word of the record's name, scores the record
\* at least as high as the query without it, whatever the rapidfuzz ratios of the
\* longer query are.
C17_NameKeywordNeverLowersTheScore ==
  (rank_engine = "search" /\ Strip(rank_input.query) # "")
    => \A k \in 1..Len(rank_input.items) :
         \A w \in NewNameWords(k) :
           ScoreUnder(k, rank_input.query \o " " \o w, RfMax)
             >= ScoreUnder(k, rank_input.query,
                           FuzzOf(rank_input.items, rank_input.profile)[k])

\* the score of the pair at position p of the result, in units of 0.00001
ReturnedScore(p) ==
  IF rank_engine = "search" THEN rank_output[p][1] ELSE 100000 * rank_output[p][1]

\* record k reached the scoring of the rank function that was called: it passed the
\* filters, and in chat_llama the service requirement checked before the score
Scored(k) ==
  /\ PassesHard(k)
  /\ rank_engine = "llama" => ~MustHaveMisses(k)

EmptyHours == {k \in 1..Len(rank_input.items) : DOMAIN rank_input.items[k].hours = {}}

\* C19: a record with an empty hours mapping is not open now, and no rank call with a
\* day filter other than "All" returns it.
C19_EmptyHoursFailClosed ==
  rank_engine # "none"
    => \A k \in EmptyHours :
         /\ ~is_open_now(rank_input.items[k], rank_input.now)
         /\ rank_input.day_filter # "All" => k \notin RankKept

\* C20: right after Reset Chat the query state of the session has its values of the
\* session's creation: no last query, no shown id, no misspelling question, no pending
\* Show More.
C20_ResetRestoresTheQueryState ==
  last_event = ResetEvent
    => /\ last_query_by_cat = [c \in Categories |-> ""]
       /\ shown_ids_by_cat = [c \in Categories |-> {}]
       /\ misspelling_suggestion = ""
       /\ ~waiting_for_misspelling_response
       /\ ~show_more

\* the last call was refresh_category_cache
Refreshed == load_call.fn = "refresh"

\* C21: after refresh_category_cache the records served for the category, by the call,
\* by the memo until it expires and by the file, are the parse of the text the refresh
\* fetched, and no record when it fetched no text.
C21_RefreshServesOnlyTheNewParse ==
  Refreshed
    => /\ load_call.items
            = (IF load_call.got THEN loader_parse_blocks(load_call.text) ELSE <<>>)
       /\ load_cache[load_call.category] \in {NoEntry, [cached |-> TRUE, items |-> load_call.items]}
       /\ json_file[load_call.category].items = load_call.items

\* a refresh found the snapshot of two records and serves the one record of the text
\* it fetched
C21_RefreshReplacedTwoByOne ==
  /\ Refreshed
  /\ Len(load_call.before.json[load_call.category].items) = 2
  /\ load_call.got
  /\ Len(load_call.items) = 1

\* C30: refresh_category_cache leaves the memo entry and the file of every other
\* category as it found them.
C30_RefreshLeavesOtherCategories ==
  Refreshed
    => \A c \in Categories \ {load_call.category} :
         /\ load_cache[c] = load_call.before.cache[c]
         /\ json_file[c] = load_call.before.json[c]

\* the canonical days an hours text names, with the times parse_hours reads after the
\* first mention of each
NamedDay(k) == DayTimes(Lower(HoursText(fn_input)), DAY_PATTERNS[k][2])

\* C22: parse_hours returns every day that the text names without a time range after
\* it as a key with an empty list of ranges.
C22_NamedDayWithoutTimesIsAKey ==
  fn_name = "parse_hours"
    => \A k \in 1..7 :
         (NamedDay(k)[1] /\ PairUp(NamedDay(k)[2]) = <<>>)
           => /\ DAY_PATTERNS[k][1] \in DOMAIN fn_output
              /\ fn_output[DAY_PATTERNS[k][1]] = <<>>

\* the days from the a-th to the b-th day of the week, past Sunday when a > b
DaysBetween(a, b) ==
  IF a <= b THEN {FullDays[k] : k \in a..b}
  ELSE {FullDays[k] : k \in (a..7) \cup (1..b)}

\* the days of the range tokens of the text, and the days its other tokens name
RangeDays ==
  (IF "mon-thu" \in Range(fn_input) THEN DaysBetween(1, 4) ELSE {})
  \cup (IF "fri-mon" \in Range(fn_input) THEN DaysBetween(5, 1) ELSE {})

SingleDays ==
  (IF "wed" \in Range(fn_input) THEN {"wednesday"} ELSE {})
  \cup (IF "sat" \in Range(fn_input) THEN {"saturday"} ELSE {})

\* the days the call derived from the text, in lower case
DerivedDays ==
  IF fn_name = "parse_hours" THEN DOMAIN fn_output ELSE {Lower(d) : d \in fn_output}

\* C23: the days derived from a text with a day range hold every day of the range,
\* wrapping past Sunday, and no day that the text neither spans nor names.
C23_RangeGivesEveryDayBetween ==
  (fn_name \in {"parse_hours", "parse_day_ranges"} /\ RangeDays # {})
    => /\ RangeDays \subseteq DerivedDays
       /\ DerivedDays \subseteq RangeDays \cup SingleDays

\* the entries of NEIGHBORHOOD_TO_ZIPS whose neighbourhood the query mentions
Mentioned ==
  {k \in 1..Len(NEIGHBORHOOD_TO_ZIPS) :
     Contains(Lower(QueryText(fn_input)), NEIGHBORHOOD_TO_ZIPS[k][1])}

\* C24: for a query without a ZIP that mentions a neighbourhood, detect_zip_from_query
\* returns the first ZIP of the first entry of the table that the query mentions.
C24_FirstZipOfFirstNeighborhood ==
  (fn_name = "detect_zip_from_query" /\ FirstZip(QueryText(fn_input)) = "" /\ Mentioned # {})
    => fn_output = NEIGHBORHOOD_TO_ZIPS[Min(Mentioned)][2][1]

\* C25: the synonym bonus adds at most 0.1 to the score of a record.
C25_SynonymBonusAtMostOnce ==
  fn_name = "score" => fn_output.synonym_bonus <= 10000

\* the one marker of the line is the website marker, "website:" or the globe emoji
OnlyWebsiteMarker(line) ==
  /\ HasKeyword(line, {"website:", GLOBE})
  /\ ~HasKeyword(line, {"services:", "phone:", "hours:", "languages:", "language:",
                        "address:", "location:"})

\* C26: a line whose only marker is the website marker sets the website of the record
\* and leaves its languages as they were.
C26_WebsiteLineSetsTheWebsite ==
  fn_name = "fields" =>
    \A j \in 1..Len(fn_input) :
       OnlyWebsiteMarker(fn_input[j]) =>
         /\ fn_output[j + 1].website # ""
         /\ fn_output[j + 1].languages = fn_output[j].languages

\* the indexes of the entries of the pair (category, id) in a list of pins
PinsOf(pins, pair) ==
  {i \in 1..Len(pins) : pins[i].category = pair.category /\ pins[i].id = pair.id}

\* at most one entry for every pair (category, id)
PinsAreUnique == \A i, j \in 1..Len(pinned) : PinsOf(pinned, pinned[i]) = PinsOf(pinned, pinned[j]) => i = j

\* the toggle of an unpinned item appended one entry, the toggle of a pinned item took
\* its entry out and left the others in place
ToggledOneEntry ==
  pin_call # NoPinCall =>
    LET was == PinsOf(pin_call.before, pin_call.toggled)
    IN IF was = {}
       THEN /\ Len(pinned) = Len(pin_call.before) + 1
            /\ SubSeq(pinned, 1, Len(pin_call.before)) = pin_call.before
            /\ PinsOf(pinned, pin_call.toggled) = {Len(pinned)}
       ELSE \E i \in was :
              pinned = SubSeq(pin_call.before, 1, i - 1)
                         \o SubSeq(pin_call.before, i + 1, Len(pin_call.before))

\* the last two toggles were of the same item
ToggledTwice == pin_call.toggled # NoPin /\ pin_call.previous = pin_call.toggled

\* C27: the pinned list holds at most one entry for every pair (category, id), a toggle
\* adds or removes exactly the entry of its item, and two toggles of the same item in a
\* row give back the list that was there before them.
C27_ToggleKeepsPinsUnique ==
  /\ PinsAreUnique
  /\ ToggledOneEntry
  /\ ToggledTwice => pinned = pin_call.before_previous

\* C28: in chat_llama the session waits for a reply to the misspelling question exactly
\* when a corrected query is held; a reply given while the session waits and the Reset
\* Chat button both leave the session not waiting and without a corrected query.
C28_WaitingIffSuggestion ==
  app = "llama" =>
    /\ waiting_for_misspelling_response <=> misspelling_suggestion # ""
    /\ (last_event.kind = "prompt" /\ last_event.was_waiting) \/ last_event = ResetEvent
         => ~waiting_for_misspelling_response /\ misspelling_suggestion = ""

\* the user answered "no" to the question about "dentall 60623" and the session waits
\* no more
C28_DeclinedAndCleared ==
  /\ Prompted
  /\ last_event.was_waiting
  /\ last_event.suggestion = "dental 60623"
  /\ Lower(last_event.prompt) \in NEGATIVE
  /\ ~waiting_for_misspelling_response
  /\ misspelling_suggestion = ""

\* the step is a prompt "more" in a category that has no recorded query
MoreWithoutQuery ==
  /\ last_event'.kind = "prompt"
  /\ Lower(Strip(last_event'.prompt)) = "more"
  /\ last_query_by_cat[session_category] = ""

\* C29: a prompt "more" in a category without a recorded query shows no record and
\* leaves the shown ids and the last query of the category as they were.
C29_MoreWithoutQueryShowsNothing ==
  [][MoreWithoutQuery =>
       /\ reply'.to_show = <<>>
       /\ shown_ids_by_cat'[session_category] = shown_ids_by_cat[session_category]
       /\ last_query_by_cat'[session_category] = last_query_by_cat[session_category]]_vars

====
